---------------------------- MODULE Spec2Model ----------------------------
(***************************************************************************)
(* ThreadSafeLRUCache<Key, Value> of include/lru_cache.hpp as a state      *)
(* machine.                                                                *)
(*                                                                         *)
(* The structural state is the std::list of CacheEntry nodes (lru_list_,   *)
(* a sequence of node identities, front first, with the payload of each    *)
(* live node in entry) and the std::unordered_map from key to list         *)
(* iterator (index_, key -> node identity).  A list iterator is a stable   *)
(* pointer to a node, so a node keeps its identity while it is spliced.    *)
(* cache_mutex_ is the std::shared_mutex; hit_count_, miss_count_ and      *)
(* total_access_time_ns_ are the three std::atomic counters.               *)
(*                                                                         *)
(* Every public member function is a sequence of steps of the calling      *)
(* thread: the call, the acquisition of the lock, the body, and (get/put)  *)
(* the update of the latency accumulator together with the release.  The   *)
(* structural part of a body is one step because it runs under the lock;   *)
(* each access to an atomic that another thread can touch without the      *)
(* lock (reset_metrics stores, get_metrics loads) is a step of its own.    *)
(*                                                                         *)
(* CacheEntry::access_time is written once by the constructor and never    *)
(* read; it is not part of the state.                                      *)
(***************************************************************************)
EXTENDS Integers, Sequences, FiniteSets, TLC

\* Bounds of the model.
MaxCap == 2
MaxKey == 2
MaxVal == 2
MaxCount == 2
MaxDur == 1
MaxTime == 1
MaxNow == 2

\* The fixture of tests/test_lru_cache.cpp: a cache of capacity 3.
TestCapacity == 3

Threads == {"t1", "t2"}
Keys == 1..MaxKey
Vals == 1..MaxVal
\* The single caller and the keys used by the tests of test_lru_cache.cpp.
TestThreads == {"t1"}
TestKeys == {1, 2, 3, 4}
\* The tests put a value of its own for each key ("one" for 1, ...).
TestPuts == {<<k, k>> : k \in TestKeys}

NoThread == "nobody"

VARIABLES
    capacity_,              \* const size_t capacity_
    lru_list_,              \* EntryList: node identities, most recent first
    entry,                  \* payload of each live list node: [key, value]
    index_,                 \* IndexMap: key -> node identity (list iterator)
    cache_mutex_,           \* [writer, readers] of the shared_mutex
    hit_count_,             \* atomic<size_t>
    miss_count_,            \* atomic<size_t>
    total_access_time_ns_,  \* atomic<uint64_t>
    pc,                     \* where each thread is in the call it runs
    frame,                  \* the arguments and locals of the call each thread runs
    ret,                    \* the value the call each thread runs is about to return
    \* History variables: they record what the calls did and are read by
    \* no action.
    recency,                \* live keys, latest successful get or put first
    written,                \* live key -> value of the latest put of the key
    inserted,               \* live keys, oldest insertion first, while untouched
    untouched,              \* no get or updating put hit a key since the cache
                            \* was last empty
    gets_counted,           \* gets counted since the latest reset_metrics began,
                            \* while not reset_raced
    reset_raced,            \* a get was counted while a reset_metrics ran
    script_pos,             \* how far the calls so far match each test's calls
    \* The journal: history kept only where recording is TRUE (PairSpec).
    recording,              \* whether the journal is kept; no action changes it
    cleared,                \* entries erased by the clear calls since the latest
                            \* put; -1 when no clear ran since the latest put
    observed,               \* for each thread holding the lock in get_metrics,
                            \* the <<hits, misses, size>> that held together at
                            \* some point since it took the lock
    reset_stored,           \* the threads holding the lock in get_metrics since
                            \* whose lock a reset_metrics stored to a counter
    \* The ledger: history kept only in the specifications that track it.
    tracking,               \* "none", "puts" or "gets"; no action changes it
    put_keys,               \* the keys put so far, while tracking puts
    get_log,                \* the gets counted since the latest reset_metrics
                            \* began, in the order in which they were counted,
                            \* each with whether its count is still in its
                            \* counter, while tracking gets
    \* The clock.
    now,                    \* what steady_clock::now() returns
    start_time              \* the local start_time of the get or put of each
                            \* thread

vars == <<capacity_, lru_list_, entry, index_, cache_mutex_, hit_count_,
          miss_count_, total_access_time_ns_, pc, frame, ret,
          recency, written, inserted, untouched, gets_counted, reset_raced,
          script_pos, recording, cleared, observed, reset_stored,
          tracking, put_keys, get_log, now, start_time>>

history == <<recency, written, inserted, untouched, gets_counted, reset_raced,
             script_pos>>

journal == <<recording, cleared, observed, reset_stored>>

ledger == <<tracking, put_keys, get_log>>

clock == <<now, start_time>>

structure == <<lru_list_, entry, index_>>
counters == <<hit_count_, miss_count_, total_access_time_ns_>>

----------------------------------------------------------------------------
\* Values returned to callers.
Void == [kind |-> "void"]
Nullopt == [kind |-> "nullopt"]
Some(v) == [kind |-> "value", value |-> v]
Bool(b) == [kind |-> "bool", b |-> b]
Size(n) == [kind |-> "size", n |-> n]
NoFrame == [op |-> "none"]
Thrown(what) == [kind |-> "exception", type |-> "CacheException", what |-> what]

Range(s) == {s[i] : i \in 1..Len(s)}

\* unordered_map: insert-or-assign and erase.
MapSet(f, k, x) == [y \in (DOMAIN f) \cup {k} |-> IF y = k THEN x ELSE f[y]]
MapErase(f, k) == [y \in (DOMAIN f) \ {k} |-> f[y]]

\* std::list: erase of one node, keeping the order of the others.
ListErase(list, it) == SelectSeq(list, LAMBDA n : n # it)

\* A node the allocator can hand out: the least identity not in use.
NewNode(list) ==
    CHOOSE n \in 1..(Len(list) + 1) :
        /\ n \notin Range(list)
        /\ \A m \in 1..(n - 1) : m \in Range(list)

\* The keys of the list, front first.
ListKeys(list, ent) == [i \in 1..Len(list) |-> ent[list[i]].key]

----------------------------------------------------------------------------
\* Mutant: the splice is missing.
move_to_front_skipped(list, it) == list

\* move_to_front_unsafe: splice the node to the front unless it is there.
move_to_front_unsafe(list, it) ==
    IF list[1] # it
    THEN <<it>> \o ListErase(list, it)
    ELSE list

\* Mutant: the victim is the front of the list, not its back.
RECURSIVE evict_from_front(_, _, _, _)
evict_from_front(list, ent, idx, cap) ==
    IF Len(list) >= cap /\ Len(list) > 0
    THEN LET first == list[1]
         IN  evict_from_front(SubSeq(list, 2, Len(list)),
                              MapErase(ent, first),
                              MapErase(idx, ent[first].key),
                              cap)
    ELSE [list |-> list, entry |-> ent, index |-> idx]

\* Mutant: the loop runs while size() > capacity_ (off by one).
RECURSIVE evict_while_above_capacity(_, _, _, _)
evict_while_above_capacity(list, ent, idx, cap) ==
    IF Len(list) > cap /\ Len(list) > 0
    THEN LET last == list[Len(list)]
         IN  evict_while_above_capacity(SubSeq(list, 1, Len(list) - 1),
                                        MapErase(ent, last),
                                        MapErase(idx, ent[last].key),
                                        cap)
    ELSE [list |-> list, entry |-> ent, index |-> idx]

\* evict_if_needed_unsafe: while the list holds capacity_ nodes or more,
\* erase the index entry of the last node's key and then the last node.
RECURSIVE evict_if_needed_unsafe(_, _, _, _)
evict_if_needed_unsafe(list, ent, idx, cap) ==
    IF Len(list) >= cap /\ Len(list) > 0
    THEN LET last == list[Len(list)]
         IN  evict_if_needed_unsafe(SubSeq(list, 1, Len(list) - 1),
                                    MapErase(ent, last),
                                    MapErase(idx, ent[last].key),
                                    cap)
    ELSE [list |-> list, entry |-> ent, index |-> idx]

----------------------------------------------------------------------------
\* std::shared_mutex.
\* Mutant: a shared lock is granted while a writer holds the mutex.
CanLockSharedBesideWriter(m) == TRUE

CanLockUnique(m) == m.writer = NoThread /\ m.readers = {}
CanLockShared(m) == m.writer = NoThread
LockUnique(m, t) == [m EXCEPT !.writer = t]
LockShared(m, t) == [m EXCEPT !.readers = @ \cup {t}]
UnlockUnique(m, t) == [m EXCEPT !.writer = NoThread]
UnlockShared(m, t) == [m EXCEPT !.readers = @ \ {t}]

\* update_access_metrics: add the measured duration to the accumulator.
\* steady_clock is monotonic, so the duration is any value >= 0.
update_access_metrics(d) ==
    /\ total_access_time_ns_ + d <= MaxTime
    /\ total_access_time_ns_' = total_access_time_ns_ + d

\* The gets that have been called and have not yet counted themselves.
GetsInFlight == Cardinality({t \in Threads : pc[t] \in {"get_lock", "get_body"}})

----------------------------------------------------------------------------
\* The calls two tests of tests/test_lru_cache.cpp make on a fresh cache of
\* capacity 3 before they look at the result.
AccessUpdatesOrder ==
    << [op |-> "put", key |-> 1], [op |-> "put", key |-> 2],
       [op |-> "put", key |-> 3], [op |-> "get", key |-> 1],
       [op |-> "put", key |-> 4] >>

LRUEvictionBehavior ==
    << [op |-> "put", key |-> 1], [op |-> "put", key |-> 2],
       [op |-> "put", key |-> 3], [op |-> "put", key |-> 4] >>

\* The calls of LRUEvictionBehavior with a contains of the least recently
\* used key before the put that evicts.
ContainsThenEvict ==
    << [op |-> "put", key |-> 1], [op |-> "put", key |-> 2],
       [op |-> "put", key |-> 3], [op |-> "contains", key |-> 1],
       [op |-> "put", key |-> 4] >>

\* The history after one more call took effect.
Live(seq, idx) == SelectSeq(seq, LAMBDA x : x \in DOMAIN idx)
Without(seq, k) == SelectSeq(seq, LAMBDA x : x # k)
Touch(seq, k) == <<k>> \o Without(seq, k)
Restrict(f, idx) == [x \in (DOMAIN f) \cap (DOMAIN idx) |-> f[x]]
ResetRunning == \E t \in Threads : pc[t] \in {"reset_hits", "reset_misses", "reset_time"}
\* The calls of ResetMetrics (its get of the absent key 999 is a get of the
\* absent key 4 here).
ResetMetrics ==
    << [op |-> "put", key |-> 1], [op |-> "get", key |-> 1],
       [op |-> "get", key |-> 4], [op |-> "reset_metrics", key |-> 0],
       [op |-> "get_metrics", key |-> 0] >>

\* How far a test's calls have been matched after one more call (-1: the
\* calls made are not the test's).
ScriptAfter(script, pos, op, k) ==
    IF /\ pos >= 0
       /\ pos < Len(script)
       /\ capacity_ = TestCapacity
       /\ script[pos + 1] = [op |-> op, key |-> k]
    THEN pos + 1
    ELSE -1
ScriptStep(op, k) ==
    [access   |-> ScriptAfter(AccessUpdatesOrder, script_pos.access, op, k),
     eviction |-> ScriptAfter(LRUEvictionBehavior, script_pos.eviction, op, k),
     contains |-> ScriptAfter(ContainsThenEvict, script_pos.contains, op, k),
     reset    |-> ScriptAfter(ResetMetrics, script_pos.reset, op, k)]

\* The journal after a step that leaves the counters and the list as given.
InMetricsLock == {t \in Threads : pc[t] \in {"metrics_hits", "metrics_misses",
                                              "metrics_time", "metrics_unlock"}}
Holding(hits, misses, list) ==
    [u \in Threads |->
        IF recording /\ u \in InMetricsLock
        THEN observed[u] \cup {<<hits, misses, Len(list)>>}
        ELSE observed[u]]
ResetStored == IF recording THEN reset_stored \cup InMetricsLock ELSE reset_stored
Journal(on) ==
    /\ recording = on
    /\ cleared = -1
    /\ observed = [t \in Threads |-> {}]
    /\ reset_stored = {}

\* The ledger and the clock at the start; the ledger of a get that counts
\* itself and of a store of reset_metrics.
Ledger(what) ==
    /\ tracking = what
    /\ put_keys = {}
    /\ get_log = <<>>
Clock ==
    /\ now = 0
    /\ start_time = [t \in Threads |-> 0]
Untracked == Ledger("none") /\ Clock
PutKeys(k) == IF tracking = "puts" THEN put_keys \cup {k} ELSE put_keys
Counted(hit) ==
    IF tracking = "gets"
    THEN Append(get_log, [hit |-> hit, counted |-> TRUE])
    ELSE get_log
Dropped(hit) ==
    [i \in 1..Len(get_log) |->
        IF get_log[i].hit = hit
        THEN [get_log[i] EXCEPT !.counted = FALSE]
        ELSE get_log[i]]

----------------------------------------------------------------------------
\* The state the constructor leaves: capacity_ set, everything else empty.
Constructed(capacity) ==
    /\ capacity_ = capacity
    /\ lru_list_ = <<>>
    /\ entry = <<>>
    /\ index_ = <<>>
    /\ cache_mutex_ = [writer |-> NoThread, readers |-> {}]
    /\ hit_count_ = 0
    /\ miss_count_ = 0
    /\ total_access_time_ns_ = 0
    /\ pc = [t \in Threads |-> "idle"]
    /\ frame = [t \in Threads |-> NoFrame]
    /\ ret = [t \in Threads |-> Void]
    /\ recency = <<>>
    /\ written = <<>>
    /\ inserted = <<>>
    /\ untouched = TRUE
    /\ gets_counted = 0
    /\ reset_raced = FALSE
    /\ script_pos = [access |-> 0, eviction |-> 0, contains |-> 0, reset |-> 0]

Init == (\E capacity \in 1..MaxCap : Constructed(capacity)) /\ Journal(FALSE) /\ Untracked

\* Before the constructor has run there is no object: no thread can call a
\* member function.
Unconstructed ==
    /\ capacity_ = 0
    /\ lru_list_ = <<>>
    /\ entry = <<>>
    /\ index_ = <<>>
    /\ cache_mutex_ = [writer |-> NoThread, readers |-> {}]
    /\ hit_count_ = 0
    /\ miss_count_ = 0
    /\ total_access_time_ns_ = 0
    /\ pc = [t \in Threads |-> "unconstructed"]
    /\ frame = [t \in Threads |-> NoFrame]
    /\ ret = [t \in Threads |-> Void]
    /\ recency = <<>>
    /\ written = <<>>
    /\ inserted = <<>>
    /\ untouched = TRUE
    /\ gets_counted = 0
    /\ reset_raced = FALSE
    /\ script_pos = [access |-> 0, eviction |-> 0, contains |-> 0, reset |-> 0]

\* ThreadSafeLRUCache(capacity)
ctor_call(t, capacity) ==
    /\ \A u \in Threads : pc[u] = "unconstructed"
    /\ pc' = [pc EXCEPT ![t] = "ctor"]
    /\ frame' = [frame EXCEPT ![t] = [op |-> "ctor", capacity |-> capacity]]
    /\ UNCHANGED <<capacity_, history, journal, ledger, clock, structure,
                   cache_mutex_, counters, ret>>

\* Mutant: the check of the capacity is missing.
ctor_body_accepts_zero(t) ==
    /\ pc[t] = "ctor"
    /\ capacity_' = frame[t].capacity
    /\ pc' = [u \in Threads |-> "idle"]
    /\ frame' = [frame EXCEPT ![t] = NoFrame]
    /\ UNCHANGED <<history, journal, ledger, clock, structure, cache_mutex_,
                   counters, ret>>

\* capacity_(capacity); if (capacity == 0) throw CacheException(...).
\* After the throw the object does not exist; otherwise every thread can use it.
ctor_body(t) ==
    /\ pc[t] = "ctor"
    /\ capacity_' = frame[t].capacity
    /\ IF frame[t].capacity = 0
       THEN /\ ret' = [ret EXCEPT ![t] = Thrown("Cache capacity must be greater than 0")]
            /\ pc' = [u \in Threads |-> "no_instance"]
       ELSE /\ ret' = ret
            /\ pc' = [u \in Threads |-> "idle"]
    /\ frame' = [frame EXCEPT ![t] = NoFrame]
    /\ UNCHANGED <<history, journal, ledger, clock, structure, cache_mutex_,
                   counters>>

\* The data members of the class, in declaration order.
Members == <<"capacity_", "lru_list_", "index_", "cache_mutex_", "hit_count_",
             "miss_count_", "total_access_time_ns_">>

\* Whether an object of the member's type can be initialised from an rvalue
\* of that type: size_t, std::list and std::unordered_map can;
\* std::shared_mutex and std::atomic have neither a move nor a copy
\* constructor.
MoveConstructibleMember(m) == m \in {"capacity_", "lru_list_", "index_"}

\* ThreadSafeLRUCache(ThreadSafeLRUCache&&) noexcept = default: a defaulted
\* move constructor moves member by member, and is defined as deleted when
\* a member cannot be move-constructed.
move_ctor_deleted ==
    \E i \in 1..Len(Members) : ~MoveConstructibleMember(Members[i])

\* What the initialisation of moved_cache yields: the new object, or no
\* object because the initialisation names a deleted function.
MovedCache(cap, list, ent, idx) ==
    [kind |-> "cache", capacity_ |-> cap, lru_list_ |-> list, entry |-> ent,
     index_ |-> idx]
IllFormed == [kind |-> "ill_formed", what |-> "use of deleted function"]

\* auto moved_cache = std::move(*cache).  With a usable constructor the new
\* object takes the list and the index and the source is left empty; with
\* the deleted one the program has no such initialisation, and nothing runs.
move_ctor(t) ==
    /\ \A u \in Threads : pc[u] = "idle"
    /\ IF move_ctor_deleted
       THEN /\ ret' = [ret EXCEPT ![t] = IllFormed]
            /\ pc' = [u \in Threads |-> "ill_formed"]
            /\ UNCHANGED structure
       ELSE /\ ret' = [ret EXCEPT ![t] =
                         MovedCache(capacity_, lru_list_, entry, index_)]
            /\ pc' = [u \in Threads |-> "moved_from"]
            /\ lru_list_' = <<>>
            /\ entry' = <<>>
            /\ index_' = <<>>
    /\ UNCHANGED <<capacity_, history, journal, ledger, clock, cache_mutex_,
                   counters, frame>>

----------------------------------------------------------------------------
\* get(key)
get_call(t, k) ==
    /\ pc[t] = "idle"
    /\ hit_count_ + miss_count_ + GetsInFlight < MaxCount
    /\ pc' = [pc EXCEPT ![t] = "get_lock"]
    /\ frame' = [frame EXCEPT ![t] = [op |-> "get", key |-> k]]
    /\ UNCHANGED <<capacity_, history, journal, ledger, structure, cache_mutex_,
                   counters, ret, now>>
    /\ start_time' = [start_time EXCEPT ![t] = now]

get_lock(t) ==
    /\ pc[t] = "get_lock"
    /\ CanLockUnique(cache_mutex_)
    /\ cache_mutex_' = LockUnique(cache_mutex_, t)
    /\ pc' = [pc EXCEPT ![t] = "get_body"]
    /\ UNCHANGED <<capacity_, history, journal, ledger, clock, structure,
                   counters, frame, ret>>

\* Mutant: a miss is counted as a hit.
get_miss_counts_hit(t) ==
    /\ hit_count_' = hit_count_ + 1
    /\ ret' = [ret EXCEPT ![t] = Nullopt]
    /\ UNCHANGED <<structure, miss_count_>>

\* Mutant: a miss is reported by an exception, as index_.at(key) would.
get_miss_throws(t) ==
    /\ miss_count_' = miss_count_ + 1
    /\ ret' = [ret EXCEPT ![t] = Thrown("key not found")]
    /\ UNCHANGED <<structure, hit_count_>>

\* it == index_.end(): count a miss, return nullopt.
get_miss(t) ==
    /\ miss_count_' = miss_count_ + 1
    /\ ret' = [ret EXCEPT ![t] = Nullopt]
    /\ UNCHANGED <<structure, hit_count_>>

\* it != index_.end(): count a hit, move the node to the front, copy the value.
get_hit(t) ==
    /\ hit_count_' = hit_count_ + 1
    /\ lru_list_' = move_to_front_unsafe(lru_list_, index_[frame[t].key])
    /\ ret' = [ret EXCEPT ![t] = Some(entry[index_[frame[t].key]].value)]
    /\ UNCHANGED <<entry, index_, miss_count_>>

get_body(t) ==
    /\ pc[t] = "get_body"
    /\ LET key == frame[t].key
           found == key \in DOMAIN index_
       IN  /\ IF found THEN get_hit(t) ELSE get_miss(t)
           /\ frame' = [frame EXCEPT ![t] = [op |-> "get", key |-> key, found |-> found]]
           /\ recency' = IF found THEN Touch(recency, key) ELSE recency
           /\ untouched' = (untouched /\ ~found)
           /\ inserted' = IF untouched' THEN inserted ELSE <<>>
           /\ script_pos' = ScriptStep("get", key)
    /\ reset_raced' = (reset_raced \/ ResetRunning)
    /\ gets_counted' = IF reset_raced' THEN 0 ELSE gets_counted + 1
    /\ observed' = Holding(hit_count_', miss_count_', lru_list_')
    /\ pc' = [pc EXCEPT ![t] = "get_update"]
    /\ UNCHANGED <<capacity_, cache_mutex_, total_access_time_ns_, written>>
    /\ UNCHANGED <<recording, cleared, reset_stored>>
    /\ get_log' = Counted(frame[t].key \in DOMAIN index_)
    /\ UNCHANGED <<tracking, put_keys, clock>>

get_update(t) ==
    /\ pc[t] = "get_update"
    /\ \E d \in 0..MaxDur : update_access_metrics(d)
    /\ cache_mutex_' = UnlockUnique(cache_mutex_, t)
    /\ pc' = [pc EXCEPT ![t] = "idle"]
    /\ frame' = [frame EXCEPT ![t] = NoFrame]
    /\ ret' = [ret EXCEPT ![t] = Void]
    /\ UNCHANGED <<capacity_, history, journal, ledger, clock, structure,
                   hit_count_, miss_count_>>

----------------------------------------------------------------------------
\* put(key, value)
put_call(t, k, v) ==
    /\ pc[t] = "idle"
    /\ pc' = [pc EXCEPT ![t] = "put_lock"]
    /\ frame' = [frame EXCEPT ![t] = [op |-> "put", key |-> k, value |-> v]]
    /\ UNCHANGED <<capacity_, history, journal, ledger, structure, cache_mutex_,
                   counters, ret, now>>
    /\ start_time' = [start_time EXCEPT ![t] = now]

\* Mutant: the start point of a put is taken once the lock is held.
put_lock_starts_clock(t) ==
    /\ pc[t] = "put_lock"
    /\ CanLockUnique(cache_mutex_)
    /\ cache_mutex_' = LockUnique(cache_mutex_, t)
    /\ pc' = [pc EXCEPT ![t] = "put_body"]
    /\ start_time' = [start_time EXCEPT ![t] = now]
    /\ UNCHANGED <<capacity_, history, journal, ledger, structure, counters,
                   frame, ret, now>>

put_lock(t) ==
    /\ pc[t] = "put_lock"
    /\ CanLockUnique(cache_mutex_)
    /\ cache_mutex_' = LockUnique(cache_mutex_, t)
    /\ pc' = [pc EXCEPT ![t] = "put_body"]
    /\ UNCHANGED <<capacity_, history, journal, ledger, clock, structure,
                   counters, frame, ret>>

\* Mutant: the value is overwritten, the node stays where it is.
put_update_keeps_position(list, ent, idx, k, v) ==
    [list  |-> list,
     entry |-> [ent EXCEPT ![idx[k]].value = v],
     index |-> idx]

\* Mutant: the node is moved to the front, its value is left as it was.
put_update_keeps_value(list, ent, idx, k, v) ==
    [list  |-> move_to_front_unsafe(list, idx[k]),
     entry |-> ent,
     index |-> idx]

\* The update of a present key: overwrite the value, move to the front.
put_update_existing(list, ent, idx, k, v) ==
    [list  |-> move_to_front_unsafe(list, idx[k]),
     entry |-> [ent EXCEPT ![idx[k]].value = v],
     index |-> idx]

\* Mutant: the insertion evicts whenever the list is not empty.
put_insert_evicts_below_capacity(list, ent, idx, cap, k, v) ==
    LET e == evict_if_needed_unsafe(list, ent, idx, 1)
        n == NewNode(e.list)
        front == <<n>> \o e.list
        ent2 == MapSet(e.entry, n, [key |-> k, value |-> v])
    IN  [list  |-> front,
         entry |-> ent2,
         index |-> MapSet(e.index, ent2[front[1]].key, front[1])]

\* The insertion of an absent key: evict, emplace_front, index the front.
put_insert(list, ent, idx, cap, k, v) ==
    LET e == evict_if_needed_unsafe(list, ent, idx, cap)
        n == NewNode(e.list)
        front == <<n>> \o e.list
        ent2 == MapSet(e.entry, n, [key |-> k, value |-> v])
    IN  [list  |-> front,
         entry |-> ent2,
         index |-> MapSet(e.index, ent2[front[1]].key, front[1])]

\* Mutant: the eviction loop erases nothing, so it never ends.
put_body_evicts_forever(t) ==
    /\ pc[t] = "put_body"
    /\ frame[t].key \in DOMAIN index_ \/ Len(lru_list_) < capacity_
    /\ LET key == frame[t].key
           value == frame[t].value
           found == key \in DOMAIN index_
           r == IF found
                THEN put_update_existing(lru_list_, entry, index_, key, value)
                ELSE put_insert(lru_list_, entry, index_, capacity_, key, value)
       IN  /\ lru_list_' = r.list
           /\ entry' = r.entry
           /\ index_' = r.index
           /\ frame' = [frame EXCEPT ![t] = [op |-> "put", key |-> key,
                                             value |-> value, found |-> found]]
           /\ recency' = Touch(Live(recency, r.index), key)
           /\ written' = MapSet(Restrict(written, r.index), key, value)
           /\ untouched' = (~found /\ (untouched \/ DOMAIN r.index = {key}))
           /\ inserted' = IF untouched'
                          THEN Live(inserted, r.index) \o <<key>>
                          ELSE <<>>
           /\ script_pos' = ScriptStep("put", key)
    /\ ret' = [ret EXCEPT ![t] = Bool(TRUE)]
    /\ observed' = Holding(hit_count_, miss_count_, lru_list_')
    /\ cleared' = -1
    /\ pc' = [pc EXCEPT ![t] = "put_update"]
    /\ UNCHANGED <<capacity_, cache_mutex_, counters>>
    /\ UNCHANGED <<gets_counted, reset_raced, recording, reset_stored>>
    /\ put_keys' = PutKeys(frame[t].key)
    /\ UNCHANGED <<tracking, get_log, clock>>

put_body(t) ==
    /\ pc[t] = "put_body"
    /\ LET key == frame[t].key
           value == frame[t].value
           found == key \in DOMAIN index_
           r == IF found
                THEN put_update_existing(lru_list_, entry, index_, key, value)
                ELSE put_insert(lru_list_, entry, index_, capacity_, key, value)
       IN  /\ lru_list_' = r.list
           /\ entry' = r.entry
           /\ index_' = r.index
           /\ frame' = [frame EXCEPT ![t] = [op |-> "put", key |-> key,
                                             value |-> value, found |-> found]]
           /\ recency' = Touch(Live(recency, r.index), key)
           /\ written' = MapSet(Restrict(written, r.index), key, value)
           /\ untouched' = (~found /\ (untouched \/ DOMAIN r.index = {key}))
           /\ inserted' = IF untouched'
                          THEN Live(inserted, r.index) \o <<key>>
                          ELSE <<>>
           /\ script_pos' = ScriptStep("put", key)
    /\ ret' = [ret EXCEPT ![t] = Bool(TRUE)]
    /\ observed' = Holding(hit_count_, miss_count_, lru_list_')
    /\ cleared' = -1
    /\ pc' = [pc EXCEPT ![t] = "put_update"]
    /\ UNCHANGED <<capacity_, cache_mutex_, counters>>
    /\ UNCHANGED <<gets_counted, reset_raced, recording, reset_stored>>
    /\ put_keys' = PutKeys(frame[t].key)
    /\ UNCHANGED <<tracking, get_log, clock>>

put_update(t) ==
    /\ pc[t] = "put_update"
    /\ \E d \in 0..MaxDur : update_access_metrics(d)
    /\ cache_mutex_' = UnlockUnique(cache_mutex_, t)
    /\ pc' = [pc EXCEPT ![t] = "idle"]
    /\ frame' = [frame EXCEPT ![t] = NoFrame]
    /\ ret' = [ret EXCEPT ![t] = Void]
    /\ UNCHANGED <<capacity_, history, journal, ledger, clock, structure,
                   hit_count_, miss_count_>>

----------------------------------------------------------------------------
\* put(key, value), statement by statement: the writes of an insertion are
\* separate steps, so that another thread can run between any two of them.

\* it = index_.find(key).  A present key is updated as in put_body; for an
\* absent key the call goes on to evict_if_needed_unsafe.
put_find(t) ==
    /\ pc[t] = "put_body"
    /\ IF frame[t].key \in DOMAIN index_
       THEN put_body(t)
       ELSE /\ pc' = [pc EXCEPT ![t] = "put_evict_test"]
            /\ frame' = [frame EXCEPT ![t] =
                  [op |-> "put", key |-> frame[t].key, value |-> frame[t].value,
                   found |-> FALSE, full |-> Len(lru_list_) >= capacity_,
                   victims |-> {}]]
            /\ UNCHANGED <<capacity_, history, journal, ledger, clock, structure, cache_mutex_,
                           counters, ret>>

\* while (lru_list_.size() >= capacity_)
put_evict_test(t) ==
    /\ pc[t] = "put_evict_test"
    /\ pc' = [pc EXCEPT ![t] = IF Len(lru_list_) >= capacity_ /\ Len(lru_list_) > 0
                               THEN "put_evict_index"
                               ELSE "put_emplace"]
    /\ UNCHANGED <<capacity_, history, journal, ledger, clock, structure, cache_mutex_, counters,
                   frame, ret>>

\* last = std::prev(lru_list_.end()); index_.erase(last->key)
put_evict_index(t) ==
    /\ pc[t] = "put_evict_index"
    /\ LET last == lru_list_[Len(lru_list_)]
       IN  /\ index_' = MapErase(index_, entry[last].key)
           /\ frame' = [frame EXCEPT ![t].victims = @ \cup {entry[last].key}]
    /\ pc' = [pc EXCEPT ![t] = "put_evict_list"]
    /\ UNCHANGED <<capacity_, history, journal, ledger, clock, lru_list_, entry, cache_mutex_,
                   counters, ret>>

\* lru_list_.erase(last), and back to the test of the loop.
put_evict_list(t) ==
    /\ pc[t] = "put_evict_list"
    /\ LET last == lru_list_[Len(lru_list_)]
       IN  /\ lru_list_' = SubSeq(lru_list_, 1, Len(lru_list_) - 1)
           /\ entry' = MapErase(entry, last)
    /\ pc' = [pc EXCEPT ![t] = "put_evict_test"]
    /\ UNCHANGED <<capacity_, history, journal, ledger, clock, index_, cache_mutex_, counters,
                   frame, ret>>

\* lru_list_.emplace_front(std::move(key), std::move(value))
put_emplace(t) ==
    /\ pc[t] = "put_emplace"
    /\ LET n == NewNode(lru_list_)
       IN  /\ lru_list_' = <<n>> \o lru_list_
           /\ entry' = MapSet(entry, n, [key |-> frame[t].key,
                                         value |-> frame[t].value])
    /\ pc' = [pc EXCEPT ![t] = "put_index"]
    /\ UNCHANGED <<capacity_, history, journal, ledger, clock, index_, cache_mutex_, counters,
                   frame, ret>>

\* index_[lru_list_.front().key] = lru_list_.begin(): the last write of the
\* insertion, where the history variables record the put.
put_index(t) ==
    /\ pc[t] = "put_index"
    /\ LET key == frame[t].key
           value == frame[t].value
       IN  /\ index_' = MapSet(index_, entry[lru_list_[1]].key, lru_list_[1])
           /\ recency' = Touch(Live(recency, index_'), key)
           /\ written' = MapSet(Restrict(written, index_'), key, value)
           /\ untouched' = (untouched \/ DOMAIN index_' = {key})
           /\ inserted' = IF untouched'
                          THEN Live(inserted, index_') \o <<key>>
                          ELSE <<>>
           /\ script_pos' = ScriptStep("put", key)
    /\ ret' = [ret EXCEPT ![t] = Bool(TRUE)]
    /\ observed' = Holding(hit_count_, miss_count_, lru_list_)
    /\ cleared' = -1
    /\ pc' = [pc EXCEPT ![t] = "put_update"]
    /\ UNCHANGED <<capacity_, lru_list_, entry, cache_mutex_, counters, frame>>
    /\ UNCHANGED <<gets_counted, reset_raced, recording, reset_stored>>
    /\ put_keys' = PutKeys(frame[t].key)
    /\ UNCHANGED <<tracking, get_log, clock>>

----------------------------------------------------------------------------
\* remove(key)
remove_call(t, k) ==
    /\ pc[t] = "idle"
    /\ pc' = [pc EXCEPT ![t] = "remove_lock"]
    /\ frame' = [frame EXCEPT ![t] = [op |-> "remove", key |-> k]]
    /\ UNCHANGED <<capacity_, history, journal, ledger, clock, structure,
                   cache_mutex_, counters, ret>>

remove_lock(t) ==
    /\ pc[t] = "remove_lock"
    /\ CanLockUnique(cache_mutex_)
    /\ cache_mutex_' = LockUnique(cache_mutex_, t)
    /\ pc' = [pc EXCEPT ![t] = "remove_body"]
    /\ UNCHANGED <<capacity_, history, journal, ledger, clock, structure,
                   counters, frame, ret>>

\* Mutant: the front node is erased instead of the node of the key.
remove_erase_front(list, ent, idx, k) ==
    [list  |-> ListErase(list, list[1]),
     entry |-> MapErase(ent, list[1]),
     index |-> MapErase(idx, k)]

\* Mutant: the list node is erased, the index entry is left behind.
remove_erase_keeps_index(list, ent, idx, k) ==
    [list  |-> ListErase(list, idx[k]),
     entry |-> MapErase(ent, idx[k]),
     index |-> idx]

\* The erase of a present key: the list node, then the index entry.
remove_erase(list, ent, idx, k) ==
    [list  |-> ListErase(list, idx[k]),
     entry |-> MapErase(ent, idx[k]),
     index |-> MapErase(idx, k)]

remove_body(t) ==
    /\ pc[t] = "remove_body"
    /\ LET key == frame[t].key
           found == key \in DOMAIN index_
       IN  /\ IF ~found
              THEN /\ ret' = [ret EXCEPT ![t] = Bool(FALSE)]
                   /\ UNCHANGED structure
              ELSE LET r == remove_erase(lru_list_, entry, index_, key)
                   IN  /\ lru_list_' = r.list
                       /\ entry' = r.entry
                       /\ index_' = r.index
                       /\ ret' = [ret EXCEPT ![t] = Bool(TRUE)]
           /\ frame' = [frame EXCEPT ![t] = [op |-> "remove", key |-> key,
                                             found |-> found]]
           /\ recency' = Without(recency, key)
           /\ written' = MapErase(written, key)
           /\ untouched' = (untouched \/ DOMAIN written' = {})
           /\ inserted' = IF untouched' THEN Without(inserted, key) ELSE <<>>
           /\ script_pos' = ScriptStep("remove", key)
    /\ observed' = Holding(hit_count_, miss_count_, lru_list_')
    /\ pc' = [pc EXCEPT ![t] = "remove_unlock"]
    /\ UNCHANGED <<capacity_, cache_mutex_, counters>>
    /\ UNCHANGED <<gets_counted, reset_raced, recording, ledger, clock,
                   cleared, reset_stored>>

remove_unlock(t) ==
    /\ pc[t] = "remove_unlock"
    /\ cache_mutex_' = UnlockUnique(cache_mutex_, t)
    /\ pc' = [pc EXCEPT ![t] = "idle"]
    /\ frame' = [frame EXCEPT ![t] = NoFrame]
    /\ ret' = [ret EXCEPT ![t] = Void]
    /\ UNCHANGED <<capacity_, history, journal, ledger, clock, structure,
                   counters>>

----------------------------------------------------------------------------
\* contains(key)
contains_call(t, k) ==
    /\ pc[t] = "idle"
    /\ pc' = [pc EXCEPT ![t] = "contains_lock"]
    /\ frame' = [frame EXCEPT ![t] = [op |-> "contains", key |-> k]]
    /\ UNCHANGED <<capacity_, history, journal, ledger, clock, structure,
                   cache_mutex_, counters, ret>>

\* Mutant: contains takes its shared lock without waiting for a writer.
contains_lock_beside_writer(t) ==
    /\ pc[t] = "contains_lock"
    /\ cache_mutex_' = LockShared(cache_mutex_, t)
    /\ pc' = [pc EXCEPT ![t] = "contains_body"]
    /\ UNCHANGED <<capacity_, history, journal, ledger, clock, structure,
                   counters, frame, ret>>

contains_lock(t) ==
    /\ pc[t] = "contains_lock"
    /\ CanLockShared(cache_mutex_)
    /\ cache_mutex_' = LockShared(cache_mutex_, t)
    /\ pc' = [pc EXCEPT ![t] = "contains_body"]
    /\ UNCHANGED <<capacity_, history, journal, ledger, clock, structure,
                   counters, frame, ret>>

\* Mutant: contains moves the key it finds to the front, as get does.
contains_body_moves_to_front(t) ==
    /\ pc[t] = "contains_body"
    /\ ret' = [ret EXCEPT ![t] = Bool(frame[t].key \in DOMAIN index_)]
    /\ lru_list_' = IF frame[t].key \in DOMAIN index_
                    THEN move_to_front_unsafe(lru_list_, index_[frame[t].key])
                    ELSE lru_list_
    /\ script_pos' = ScriptStep("contains", frame[t].key)
    /\ pc' = [pc EXCEPT ![t] = "contains_unlock"]
    /\ UNCHANGED <<capacity_, cache_mutex_, frame, entry, index_, counters>>
    /\ UNCHANGED <<recency, written, inserted, untouched, gets_counted,
                   reset_raced>>
    /\ UNCHANGED <<journal, ledger, clock>>

\* index_.find(key) != index_.end(), under the shared lock.
contains_body(t) ==
    /\ pc[t] = "contains_body"
    /\ ret' = [ret EXCEPT ![t] = Bool(frame[t].key \in DOMAIN index_)]
    /\ script_pos' = ScriptStep("contains", frame[t].key)
    /\ pc' = [pc EXCEPT ![t] = "contains_unlock"]
    /\ UNCHANGED <<capacity_, cache_mutex_, frame, structure, counters>>
    /\ UNCHANGED <<recency, written, inserted, untouched, gets_counted,
                   reset_raced>>
    /\ UNCHANGED <<journal, ledger, clock>>

contains_unlock(t) ==
    /\ pc[t] = "contains_unlock"
    /\ cache_mutex_' = UnlockShared(cache_mutex_, t)
    /\ pc' = [pc EXCEPT ![t] = "idle"]
    /\ frame' = [frame EXCEPT ![t] = NoFrame]
    /\ ret' = [ret EXCEPT ![t] = Void]
    /\ UNCHANGED <<capacity_, history, journal, ledger, clock, structure,
                   counters>>

----------------------------------------------------------------------------
\* size()
size_call(t) ==
    /\ pc[t] = "idle"
    /\ pc' = [pc EXCEPT ![t] = "size_lock"]
    /\ frame' = [frame EXCEPT ![t] = [op |-> "size"]]
    /\ UNCHANGED <<capacity_, history, journal, ledger, clock, structure,
                   cache_mutex_, counters, ret>>

size_lock(t) ==
    /\ pc[t] = "size_lock"
    /\ CanLockShared(cache_mutex_)
    /\ cache_mutex_' = LockShared(cache_mutex_, t)
    /\ pc' = [pc EXCEPT ![t] = "size_body"]
    /\ UNCHANGED <<capacity_, history, journal, ledger, clock, structure,
                   counters, frame, ret>>

size_body(t) ==
    /\ pc[t] = "size_body"
    /\ ret' = [ret EXCEPT ![t] = Size(Len(lru_list_))]
    /\ pc' = [pc EXCEPT ![t] = "size_unlock"]
    /\ UNCHANGED <<capacity_, history, journal, ledger, clock, cache_mutex_,
                   frame, structure, counters>>

size_unlock(t) ==
    /\ pc[t] = "size_unlock"
    /\ cache_mutex_' = UnlockShared(cache_mutex_, t)
    /\ pc' = [pc EXCEPT ![t] = "idle"]
    /\ frame' = [frame EXCEPT ![t] = NoFrame]
    /\ ret' = [ret EXCEPT ![t] = Void]
    /\ UNCHANGED <<capacity_, history, journal, ledger, clock, structure,
                   counters>>

\* capacity(): returns the constant member, takes no lock.
capacity_call(t) ==
    /\ pc[t] = "idle"
    /\ pc' = [pc EXCEPT ![t] = "capacity_return"]
    /\ frame' = [frame EXCEPT ![t] = [op |-> "capacity"]]
    /\ ret' = [ret EXCEPT ![t] = Size(capacity_)]
    /\ UNCHANGED <<capacity_, history, journal, ledger, clock, structure,
                   cache_mutex_, counters>>

capacity_return(t) ==
    /\ pc[t] = "capacity_return"
    /\ pc' = [pc EXCEPT ![t] = "idle"]
    /\ frame' = [frame EXCEPT ![t] = NoFrame]
    /\ ret' = [ret EXCEPT ![t] = Void]
    /\ UNCHANGED <<capacity_, history, journal, ledger, clock, structure,
                   cache_mutex_, counters>>

\* empty()
empty_call(t) ==
    /\ pc[t] = "idle"
    /\ pc' = [pc EXCEPT ![t] = "empty_lock"]
    /\ frame' = [frame EXCEPT ![t] = [op |-> "empty"]]
    /\ UNCHANGED <<capacity_, history, journal, ledger, clock, structure,
                   cache_mutex_, counters, ret>>

empty_lock(t) ==
    /\ pc[t] = "empty_lock"
    /\ CanLockShared(cache_mutex_)
    /\ cache_mutex_' = LockShared(cache_mutex_, t)
    /\ pc' = [pc EXCEPT ![t] = "empty_body"]
    /\ UNCHANGED <<capacity_, history, journal, ledger, clock, structure,
                   counters, frame, ret>>

empty_body(t) ==
    /\ pc[t] = "empty_body"
    /\ ret' = [ret EXCEPT ![t] = Bool(lru_list_ = <<>>)]
    /\ pc' = [pc EXCEPT ![t] = "empty_unlock"]
    /\ UNCHANGED <<capacity_, history, journal, ledger, clock, cache_mutex_,
                   frame, structure, counters>>

empty_unlock(t) ==
    /\ pc[t] = "empty_unlock"
    /\ cache_mutex_' = UnlockShared(cache_mutex_, t)
    /\ pc' = [pc EXCEPT ![t] = "idle"]
    /\ frame' = [frame EXCEPT ![t] = NoFrame]
    /\ ret' = [ret EXCEPT ![t] = Void]
    /\ UNCHANGED <<capacity_, history, journal, ledger, clock, structure,
                   counters>>

----------------------------------------------------------------------------
\* clear()
clear_call(t) ==
    /\ pc[t] = "idle"
    /\ pc' = [pc EXCEPT ![t] = "clear_lock"]
    /\ frame' = [frame EXCEPT ![t] = [op |-> "clear"]]
    /\ UNCHANGED <<capacity_, history, journal, ledger, clock, structure,
                   cache_mutex_, counters, ret>>

clear_lock(t) ==
    /\ pc[t] = "clear_lock"
    /\ CanLockUnique(cache_mutex_)
    /\ cache_mutex_' = LockUnique(cache_mutex_, t)
    /\ pc' = [pc EXCEPT ![t] = "clear_body"]
    /\ UNCHANGED <<capacity_, history, journal, ledger, clock, structure,
                   counters, frame, ret>>

\* Mutant: index_.clear() is missing.
clear_body_keeps_index(t) ==
    /\ pc[t] = "clear_body"
    /\ lru_list_' = <<>>
    /\ entry' = <<>>
    /\ index_' = index_
    /\ recency' = <<>>
    /\ written' = <<>>
    /\ inserted' = <<>>
    /\ untouched' = TRUE
    /\ script_pos' = ScriptStep("clear", 0)
    /\ observed' = Holding(hit_count_, miss_count_, lru_list_')
    /\ cleared' = IF recording
                  THEN (IF cleared < 0 THEN 0 ELSE cleared) + Len(lru_list_)
                  ELSE cleared
    /\ pc' = [pc EXCEPT ![t] = "clear_unlock"]
    /\ UNCHANGED <<capacity_, cache_mutex_, frame, counters, ret>>
    /\ UNCHANGED <<gets_counted, reset_raced, recording, ledger, clock,
                   reset_stored>>

\* Mutant: clear calls size(), which takes the mutex, while it holds it.
clear_body_calls_size(t) ==
    /\ pc[t] = "clear_body"
    /\ CanLockShared(cache_mutex_)
    /\ lru_list_' = <<>>
    /\ entry' = <<>>
    /\ index_' = <<>>
    /\ recency' = <<>>
    /\ written' = <<>>
    /\ inserted' = <<>>
    /\ untouched' = TRUE
    /\ script_pos' = ScriptStep("clear", 0)
    /\ observed' = Holding(hit_count_, miss_count_, lru_list_')
    /\ cleared' = IF recording
                  THEN (IF cleared < 0 THEN 0 ELSE cleared) + Len(lru_list_)
                  ELSE cleared
    /\ pc' = [pc EXCEPT ![t] = "clear_unlock"]
    /\ UNCHANGED <<capacity_, cache_mutex_, frame, counters, ret>>
    /\ UNCHANGED <<gets_counted, reset_raced, recording, ledger, clock,
                   reset_stored>>

\* lru_list_.clear(); index_.clear();
clear_body(t) ==
    /\ pc[t] = "clear_body"
    /\ lru_list_' = <<>>
    /\ entry' = <<>>
    /\ index_' = <<>>
    /\ recency' = <<>>
    /\ written' = <<>>
    /\ inserted' = <<>>
    /\ untouched' = TRUE
    /\ script_pos' = ScriptStep("clear", 0)
    /\ observed' = Holding(hit_count_, miss_count_, lru_list_')
    /\ cleared' = IF recording
                  THEN (IF cleared < 0 THEN 0 ELSE cleared) + Len(lru_list_)
                  ELSE cleared
    /\ pc' = [pc EXCEPT ![t] = "clear_unlock"]
    /\ UNCHANGED <<capacity_, cache_mutex_, frame, counters, ret>>
    /\ UNCHANGED <<gets_counted, reset_raced, recording, ledger, clock,
                   reset_stored>>

clear_unlock(t) ==
    /\ pc[t] = "clear_unlock"
    /\ cache_mutex_' = UnlockUnique(cache_mutex_, t)
    /\ pc' = [pc EXCEPT ![t] = "idle"]
    /\ frame' = [frame EXCEPT ![t] = NoFrame]
    /\ ret' = [ret EXCEPT ![t] = Void]
    /\ UNCHANGED <<capacity_, history, journal, ledger, clock, structure,
                   counters>>

----------------------------------------------------------------------------
\* get_metrics(): under the shared lock, load hit_count_, load miss_count_,
\* read the size and the capacity, load total_access_time_ns_.
Ratio(num, den) == IF den > 0 THEN <<num, den>> ELSE <<0, 1>>

get_metrics_call(t) ==
    /\ pc[t] = "idle"
    /\ pc' = [pc EXCEPT ![t] = "metrics_lock"]
    /\ frame' = [frame EXCEPT ![t] = [op |-> "get_metrics"]]
    /\ UNCHANGED <<capacity_, history, journal, ledger, clock, structure,
                   cache_mutex_, counters, ret>>

\* Mutant: get_metrics does not take the lock.
get_metrics_lock_skipped(t) ==
    /\ pc[t] = "metrics_lock"
    /\ cache_mutex_' = cache_mutex_
    /\ pc' = [pc EXCEPT ![t] = "metrics_hits"]
    /\ reset_stored' = reset_stored \ {t}
    /\ observed' = IF recording
                   THEN [observed EXCEPT ![t] =
                           {<<hit_count_, miss_count_, Len(lru_list_)>>}]
                   ELSE observed
    /\ UNCHANGED <<capacity_, history, structure, counters, frame, ret>>
    /\ UNCHANGED <<recording, ledger, clock, cleared>>

\* std::shared_lock lock(cache_mutex_);
get_metrics_lock(t) ==
    /\ pc[t] = "metrics_lock"
    /\ CanLockShared(cache_mutex_)
    /\ cache_mutex_' = LockShared(cache_mutex_, t)
    /\ pc' = [pc EXCEPT ![t] = "metrics_hits"]
    /\ reset_stored' = reset_stored \ {t}
    /\ observed' = IF recording
                   THEN [observed EXCEPT ![t] =
                           {<<hit_count_, miss_count_, Len(lru_list_)>>}]
                   ELSE observed
    /\ UNCHANGED <<capacity_, history, structure, counters, frame, ret>>
    /\ UNCHANGED <<recording, ledger, clock, cleared>>

get_metrics_hits(t) ==
    /\ pc[t] = "metrics_hits"
    /\ frame' = [frame EXCEPT ![t] = [op |-> "get_metrics", hits |-> hit_count_]]
    /\ pc' = [pc EXCEPT ![t] = "metrics_misses"]
    /\ UNCHANGED <<capacity_, history, journal, ledger, clock, structure,
                   cache_mutex_, counters, ret>>

get_metrics_misses(t) ==
    /\ pc[t] = "metrics_misses"
    /\ frame' = [frame EXCEPT ![t] =
                   [op |-> "get_metrics", hits |-> frame[t].hits,
                    misses |-> miss_count_, current_size |-> Len(lru_list_)]]
    /\ pc' = [pc EXCEPT ![t] = "metrics_time"]
    /\ UNCHANGED <<capacity_, history, journal, ledger, clock, structure,
                   cache_mutex_, counters, ret>>

\* Mutant: the ratio is computed from the counters loaded once more.
get_metrics_time_reloads(t) ==
    /\ pc[t] = "metrics_time"
    /\ LET hits == frame[t].hits
           misses == frame[t].misses
           total_requests == hits + misses
       IN  ret' = [ret EXCEPT ![t] =
                     [kind |-> "metrics",
                      hits |-> hits,
                      misses |-> misses,
                      hit_ratio |-> Ratio(hit_count_, hit_count_ + miss_count_),
                      current_size |-> frame[t].current_size,
                      capacity |-> capacity_,
                      average_access_time_ns |->
                          Ratio(total_access_time_ns_, total_requests)]]
    /\ pc' = [pc EXCEPT ![t] = "metrics_unlock"]
    /\ frame' = [frame EXCEPT ![t] = [op |-> "get_metrics"]]
    /\ script_pos' = ScriptStep("get_metrics", 0)
    /\ UNCHANGED <<capacity_, journal, ledger, clock, structure, cache_mutex_,
                   counters>>
    /\ UNCHANGED <<recency, written, inserted, untouched, gets_counted,
                   reset_raced>>

\* The ratios are computed from the local hits and misses.
get_metrics_time(t) ==
    /\ pc[t] = "metrics_time"
    /\ LET hits == frame[t].hits
           misses == frame[t].misses
           total_requests == hits + misses
       IN  ret' = [ret EXCEPT ![t] =
                     [kind |-> "metrics",
                      hits |-> hits,
                      misses |-> misses,
                      hit_ratio |-> Ratio(hits, total_requests),
                      current_size |-> frame[t].current_size,
                      capacity |-> capacity_,
                      average_access_time_ns |->
                          Ratio(total_access_time_ns_, total_requests)]]
    /\ pc' = [pc EXCEPT ![t] = "metrics_unlock"]
    /\ frame' = [frame EXCEPT ![t] = [op |-> "get_metrics"]]
    /\ script_pos' = ScriptStep("get_metrics", 0)
    /\ UNCHANGED <<capacity_, journal, ledger, clock, structure, cache_mutex_,
                   counters>>
    /\ UNCHANGED <<recency, written, inserted, untouched, gets_counted,
                   reset_raced>>

get_metrics_unlock(t) ==
    /\ pc[t] = "metrics_unlock"
    /\ cache_mutex_' = UnlockShared(cache_mutex_, t)
    /\ pc' = [pc EXCEPT ![t] = "idle"]
    /\ frame' = [frame EXCEPT ![t] = NoFrame]
    /\ ret' = [ret EXCEPT ![t] = Void]
    /\ reset_stored' = reset_stored \ {t}
    /\ observed' = [observed EXCEPT ![t] = {}]
    /\ UNCHANGED <<capacity_, history, structure, counters>>
    /\ UNCHANGED <<recording, ledger, clock, cleared>>

----------------------------------------------------------------------------
\* reset_metrics(): three relaxed stores, no lock.
reset_metrics_call(t) ==
    /\ pc[t] = "idle"
    /\ pc' = [pc EXCEPT ![t] = "reset_hits"]
    /\ frame' = [frame EXCEPT ![t] = [op |-> "reset_metrics"]]
    /\ gets_counted' = 0
    /\ reset_raced' = FALSE
    /\ UNCHANGED <<capacity_, structure, cache_mutex_, counters, ret>>
    /\ UNCHANGED <<recency, written, inserted, untouched, script_pos, journal>>
    /\ get_log' = IF tracking = "gets" THEN <<>> ELSE get_log
    /\ UNCHANGED <<tracking, put_keys, clock>>

\* Mutant: reset_metrics stores only while nobody holds the mutex.
reset_metrics_hits_locked(t) ==
    /\ pc[t] = "reset_hits"
    /\ CanLockUnique(cache_mutex_)
    /\ hit_count_' = 0
    /\ observed' = Holding(0, miss_count_, lru_list_)
    /\ reset_stored' = ResetStored
    /\ pc' = [pc EXCEPT ![t] = "reset_misses"]
    /\ UNCHANGED <<capacity_, history, structure, cache_mutex_, miss_count_,
                   total_access_time_ns_, frame, ret>>
    /\ UNCHANGED <<recording, cleared>>
    /\ get_log' = Dropped(TRUE)
    /\ UNCHANGED <<tracking, put_keys, clock>>

\* hit_count_.store(0): no lock is taken.
reset_metrics_hits(t) ==
    /\ pc[t] = "reset_hits"
    /\ hit_count_' = 0
    /\ observed' = Holding(0, miss_count_, lru_list_)
    /\ reset_stored' = ResetStored
    /\ pc' = [pc EXCEPT ![t] = "reset_misses"]
    /\ UNCHANGED <<capacity_, history, structure, cache_mutex_, miss_count_,
                   total_access_time_ns_, frame, ret>>
    /\ UNCHANGED <<recording, cleared>>
    /\ get_log' = Dropped(TRUE)
    /\ UNCHANGED <<tracking, put_keys, clock>>

\* Mutant: the store to miss_count_ is missing.
reset_metrics_skips_misses(t) ==
    /\ pc[t] = "reset_misses"
    /\ pc' = [pc EXCEPT ![t] = "reset_time"]
    /\ UNCHANGED <<capacity_, history, journal, ledger, clock, structure, cache_mutex_, counters,
                   frame, ret>>

reset_metrics_misses(t) ==
    /\ pc[t] = "reset_misses"
    /\ miss_count_' = 0
    /\ observed' = Holding(hit_count_, 0, lru_list_)
    /\ reset_stored' = ResetStored
    /\ pc' = [pc EXCEPT ![t] = "reset_time"]
    /\ UNCHANGED <<capacity_, history, structure, cache_mutex_, hit_count_,
                   total_access_time_ns_, frame, ret>>
    /\ UNCHANGED <<recording, cleared>>
    /\ get_log' = Dropped(FALSE)
    /\ UNCHANGED <<tracking, put_keys, clock>>

\* Mutant: the store to total_access_time_ns_ is missing.
reset_metrics_skips_time(t) ==
    /\ pc[t] = "reset_time"
    /\ pc' = [pc EXCEPT ![t] = "idle"]
    /\ frame' = [frame EXCEPT ![t] = NoFrame]
    /\ script_pos' = ScriptStep("reset_metrics", 0)
    /\ UNCHANGED <<capacity_, journal, ledger, clock, structure, cache_mutex_,
                   counters, ret>>
    /\ UNCHANGED <<recency, written, inserted, untouched, gets_counted,
                   reset_raced>>

reset_metrics_time(t) ==
    /\ pc[t] = "reset_time"
    /\ total_access_time_ns_' = 0
    /\ pc' = [pc EXCEPT ![t] = "idle"]
    /\ frame' = [frame EXCEPT ![t] = NoFrame]
    /\ script_pos' = ScriptStep("reset_metrics", 0)
    /\ UNCHANGED <<capacity_, journal, ledger, clock, structure, cache_mutex_, hit_count_,
                   miss_count_, ret>>
    /\ UNCHANGED <<recency, written, inserted, untouched, gets_counted,
                   reset_raced>>

----------------------------------------------------------------------------
\* The clock and the durations measured with it.
InTimedCall(t) ==
    pc[t] \in {"get_lock", "get_body", "get_update",
               "put_lock", "put_body", "put_update"}

\* std::chrono::steady_clock advances; it stops at MaxNow, and while a get
\* or a put is under way it does not run further than MaxDur past the
\* start of the call.
tick ==
    /\ now < MaxNow
    /\ \A t \in Threads : InTimedCall(t) => now + 1 - start_time[t] <= MaxDur
    /\ now' = now + 1
    /\ UNCHANGED <<capacity_, history, journal, ledger, structure, cache_mutex_,
                   counters, pc, frame, ret, start_time>>

\* update_access_metrics(start_time): end_time = steady_clock::now(), the
\* duration is end_time - start_time.
duration_ns(t) == now - start_time[t]

\* get and put ending with the duration the clock gives.
get_update_clocked(t) ==
    /\ get_update(t)
    /\ total_access_time_ns_' = total_access_time_ns_ + duration_ns(t)

put_update_clocked(t) ==
    /\ put_update(t)
    /\ total_access_time_ns_' = total_access_time_ns_ + duration_ns(t)

----------------------------------------------------------------------------
Step(t, K, P) ==
    \/ \E k \in K : get_call(t, k)
    \/ get_lock(t)
    \/ get_body(t)
    \/ get_update(t)
    \/ \E p \in P : put_call(t, p[1], p[2])
    \/ put_lock(t)
    \/ put_body(t)
    \/ put_update(t)
    \/ \E k \in K : remove_call(t, k)
    \/ remove_lock(t)
    \/ remove_body(t)
    \/ remove_unlock(t)
    \/ \E k \in K : contains_call(t, k)
    \/ contains_lock(t)
    \/ contains_body(t)
    \/ contains_unlock(t)
    \/ size_call(t)
    \/ size_lock(t)
    \/ size_body(t)
    \/ size_unlock(t)
    \/ capacity_call(t)
    \/ capacity_return(t)
    \/ empty_call(t)
    \/ empty_lock(t)
    \/ empty_body(t)
    \/ empty_unlock(t)
    \/ clear_call(t)
    \/ clear_lock(t)
    \/ clear_body(t)
    \/ clear_unlock(t)
    \/ get_metrics_call(t)
    \/ get_metrics_lock(t)
    \/ get_metrics_hits(t)
    \/ get_metrics_misses(t)
    \/ get_metrics_time(t)
    \/ get_metrics_unlock(t)
    \/ reset_metrics_call(t)
    \/ reset_metrics_hits(t)
    \/ reset_metrics_misses(t)
    \/ reset_metrics_time(t)

\* The steps of the call a thread is in: every step but the calls.
Continue(t) ==
    \/ get_lock(t) \/ get_body(t) \/ get_update(t)
    \/ put_lock(t) \/ put_body(t) \/ put_update(t)
    \/ remove_lock(t) \/ remove_body(t) \/ remove_unlock(t)
    \/ contains_lock(t) \/ contains_body(t) \/ contains_unlock(t)
    \/ size_lock(t) \/ size_body(t) \/ size_unlock(t)
    \/ capacity_return(t)
    \/ empty_lock(t) \/ empty_body(t) \/ empty_unlock(t)
    \/ clear_lock(t) \/ clear_body(t) \/ clear_unlock(t)
    \/ get_metrics_lock(t) \/ get_metrics_hits(t) \/ get_metrics_misses(t)
    \/ get_metrics_time(t) \/ get_metrics_unlock(t)
    \/ reset_metrics_hits(t) \/ reset_metrics_misses(t) \/ reset_metrics_time(t)

Next == \E t \in Threads : Step(t, Keys, Keys \X Vals)

Spec == Init /\ [][Next]_vars

\* One caller on the fixture of tests/test_lru_cache.cpp.
TestInit == Constructed(TestCapacity) /\ Journal(FALSE) /\ Untracked

TestNext == \E t \in TestThreads : Step(t, TestKeys, TestPuts)

TestSpec == TestInit /\ [][TestNext]_vars

\* One caller that constructs the cache, with any capacity from 0, and then
\* uses it.
CtorInit == Unconstructed /\ Journal(FALSE) /\ Untracked

CtorNext ==
    \/ \E t \in TestThreads, capacity \in 0..MaxCap : ctor_call(t, capacity)
    \/ \E t \in TestThreads : ctor_body(t)
    \/ \E t \in TestThreads : Step(t, Keys, Keys \X Vals)

CtorSpec == CtorInit /\ [][CtorNext]_vars

\* One caller on the fixture that uses the cache and then initialises a new
\* cache from it, as LRUCacheTest.MoveSemantics does.
MoveNext ==
    \/ \E t \in TestThreads : Step(t, TestKeys, TestPuts)
    \/ \E t \in TestThreads : move_ctor(t)

MoveSpec == TestInit /\ [][MoveNext]_vars

\* Two callers of put and of the member functions that read the list or
\* the index, with put run statement by statement.
StatementCall(t) ==
    \/ \E k \in Keys : get_call(t, k)
    \/ \E k \in Keys : put_call(t, k, k)
    \/ \E k \in Keys : contains_call(t, k)
    \/ size_call(t)
    \/ empty_call(t)
    \/ get_metrics_call(t)

StatementContinue(t) ==
    \/ get_lock(t) \/ get_body(t) \/ get_update(t)
    \/ put_lock(t) \/ put_find(t) \/ put_evict_test(t) \/ put_evict_index(t)
    \/ put_evict_list(t) \/ put_emplace(t) \/ put_index(t) \/ put_update(t)
    \/ contains_lock(t) \/ contains_body(t) \/ contains_unlock(t)
    \/ size_lock(t) \/ size_body(t) \/ size_unlock(t)
    \/ empty_lock(t) \/ empty_body(t) \/ empty_unlock(t)
    \/ get_metrics_lock(t) \/ get_metrics_hits(t) \/ get_metrics_misses(t)
    \/ get_metrics_time(t) \/ get_metrics_unlock(t)

StatementInit == (\E capacity \in 1..MaxCap : Constructed(capacity)) /\ Journal(FALSE) /\ Untracked

StatementNext == \E t \in Threads : StatementCall(t) \/ StatementContinue(t)

StatementSpec == StatementInit /\ [][StatementNext]_vars

\* Two callers that only put, each key with the value twice the key as in
\* ThreadSafetyTest.ConcurrentPuts, and read size(); the keys put are
\* tracked.
PutsKeys == 1..(MaxCap + 1)

PutsInit ==
    /\ \E capacity \in 1..MaxCap : Constructed(capacity)
    /\ Journal(FALSE)
    /\ Ledger("puts")
    /\ Clock

PutsNext ==
    \E t \in Threads :
        \/ \E k \in PutsKeys : put_call(t, k, k * 2)
        \/ put_lock(t) \/ put_body(t) \/ put_update(t)
        \/ size_call(t) \/ size_lock(t) \/ size_body(t) \/ size_unlock(t)

PutsSpec == PutsInit /\ [][PutsNext]_vars

\* Two callers of get and put on a cache of capacity 1, one of which also
\* calls reset_metrics; the gets are tracked.
ResetThreads == {"t2"}

ResetInit == Constructed(1) /\ Journal(FALSE) /\ Ledger("gets") /\ Clock

ResetNext ==
    \/ \E t \in Threads :
          \/ \E k \in Keys : get_call(t, k)
          \/ get_lock(t) \/ get_body(t) \/ get_update(t)
          \/ \E k \in Keys : put_call(t, k, k)
          \/ put_lock(t) \/ put_body(t) \/ put_update(t)
    \/ \E t \in ResetThreads :
          \/ reset_metrics_call(t)
          \/ reset_metrics_hits(t) \/ reset_metrics_misses(t)
          \/ reset_metrics_time(t)

ResetSpec == ResetInit /\ [][ResetNext]_vars

\* Two callers on a cache of capacity 1 with the keys 1 and 2 (every put of
\* the other key evicts), keeping the journal.
PairInit == Constructed(1) /\ Journal(TRUE) /\ Untracked

PairNext == \E t \in Threads : Step(t, Keys, {<<k, k>> : k \in Keys})

PairSpec == PairInit /\ [][PairNext]_vars

\* Two callers of the member functions that take the mutex, on a cache of
\* capacity 1, under fair scheduling.
LiveCall(t) ==
    \/ \E k \in Keys : get_call(t, k)
    \/ \E k \in Keys : put_call(t, k, k)
    \/ \E k \in Keys : remove_call(t, k)
    \/ \E k \in Keys : contains_call(t, k)
    \/ size_call(t)
    \/ empty_call(t)
    \/ clear_call(t)
    \/ get_metrics_call(t)

LiveContinue(t) ==
    \/ get_lock(t) \/ get_body(t) \/ get_update(t)
    \/ put_lock(t) \/ put_body(t) \/ put_update(t)
    \/ remove_lock(t) \/ remove_body(t) \/ remove_unlock(t)
    \/ contains_lock(t) \/ contains_body(t) \/ contains_unlock(t)
    \/ size_lock(t) \/ size_body(t) \/ size_unlock(t)
    \/ empty_lock(t) \/ empty_body(t) \/ empty_unlock(t)
    \/ clear_lock(t) \/ clear_body(t) \/ clear_unlock(t)
    \/ get_metrics_lock(t) \/ get_metrics_hits(t) \/ get_metrics_misses(t)
    \/ get_metrics_time(t) \/ get_metrics_unlock(t)

LiveInit == Constructed(1) /\ Journal(FALSE) /\ Untracked

LiveNext == \E t \in Threads : LiveCall(t) \/ LiveContinue(t)

\* The scheduler runs every thread that can run: a step of a call that stays
\* possible is eventually taken.  std::shared_mutex promises no order among
\* the threads that request it, so nothing more is assumed of the lock steps.
LiveSpec ==
    LiveInit /\ [][LiveNext]_vars /\ \A t \in Threads : WF_vars(LiveContinue(t))

\* Two callers of the member functions that take the mutex, on a cache of
\* capacity 1, with the clock running.
ClockContinue(t) ==
    \/ get_lock(t) \/ get_body(t) \/ get_update_clocked(t)
    \/ put_lock(t) \/ put_body(t) \/ put_update_clocked(t)
    \/ remove_lock(t) \/ remove_body(t) \/ remove_unlock(t)
    \/ contains_lock(t) \/ contains_body(t) \/ contains_unlock(t)
    \/ size_lock(t) \/ size_body(t) \/ size_unlock(t)
    \/ empty_lock(t) \/ empty_body(t) \/ empty_unlock(t)
    \/ clear_lock(t) \/ clear_body(t) \/ clear_unlock(t)
    \/ get_metrics_lock(t) \/ get_metrics_hits(t) \/ get_metrics_misses(t)
    \/ get_metrics_time(t) \/ get_metrics_unlock(t)

ClockNext ==
    \/ \E t \in Threads : LiveCall(t) \/ ClockContinue(t)
    \/ tick

ClockSpec == LiveInit /\ [][ClockNext]_vars


----------------------------------------------------------------------------
\* Where a thread is inside a member function, holding the lock.
ExclusiveBody == {"get_body", "get_update", "put_body", "put_update",
                  "remove_body", "remove_unlock", "clear_body", "clear_unlock"}
SharedBody == {"contains_body", "contains_unlock", "size_body", "size_unlock",
               "empty_body", "empty_unlock", "metrics_hits", "metrics_misses",
               "metrics_time", "metrics_unlock"}
InExclusive(t) == pc[t] \in ExclusiveBody
InShared(t) == pc[t] \in SharedBody

\* The keys of the list before and after a step, and the stored value of a
\* key before and after a step.
KeysBefore == ListKeys(lru_list_, entry)
KeysAfter == ListKeys(lru_list_', entry')
ValueBefore(k) == entry[index_[k]].value
ValueAfter(k) == entry'[index_'[k]].value
BodyStep(t, from, to) == pc[t] = from /\ pc'[t] = to

\* C1: in every reachable state, under any interleaving of the calls of any
\* thread, the list holds between 0 and capacity_ entries, and every size()
\* reports a value in that range.
C1_SizeWithinCapacity ==
    /\ Len(lru_list_) \in 0..capacity_
    /\ \A t \in Threads :
         pc[t] = "size_unlock" => ret[t].n \in 0..capacity_

\* C1 witness: a size() reports a full cache of capacity 2 while the other
\* thread is in a call of its own.
C1_Witness ==
    \E t \in Threads, u \in Threads :
        /\ pc[t] = "size_unlock"
        /\ ret[t].n = capacity_
        /\ capacity_ = 2
        /\ u # t
        /\ pc[u] # "idle"

\* C2: whenever no thread holds the mutex exclusively, the keys of the index
\* are the keys of the list, the list holds no key and no node twice, and
\* the locator the index holds for a key is a node of the list that carries
\* that key.
C2_IndexMatchesList ==
    cache_mutex_.writer = NoThread =>
        /\ DOMAIN index_ = Range(ListKeys(lru_list_, entry))
        /\ \A i \in 1..Len(lru_list_), j \in 1..Len(lru_list_) :
             i # j => /\ lru_list_[i] # lru_list_[j]
                      /\ entry[lru_list_[i]].key # entry[lru_list_[j]].key
        /\ \A k \in DOMAIN index_ :
             /\ index_[k] \in Range(lru_list_)
             /\ entry[index_[k]].key = k

\* C2 witness: nobody holds the mutex, two entries are live, and the node
\* allocated first is at the front again (it was spliced there).
C2_Witness ==
    /\ cache_mutex_.writer = NoThread
    /\ cache_mutex_.readers = {}
    /\ lru_list_ = <<1, 2>>
    /\ ~untouched

\* C6: under any interleaving, a get that hits returns the value of the
\* latest put of its key (the latest in the order in which the puts held the
\* mutex), and every call sees what the puts, removes and clears before it
\* left: a get hits and a contains answers true exactly for the keys put and
\* not removed, cleared or evicted since, and size() counts those keys.
C6_ReadsSeeLatestWrites ==
    /\ DOMAIN written = DOMAIN index_
    /\ \A t \in Threads :
         /\ pc[t] = "get_update" =>
              /\ frame[t].found <=> frame[t].key \in DOMAIN written
              /\ frame[t].found => ret[t] = Some(written[frame[t].key])
              /\ ~frame[t].found => ret[t] = Nullopt
         /\ pc[t] = "contains_unlock" =>
              ret[t] = Bool(frame[t].key \in DOMAIN written)
         /\ pc[t] = "size_unlock" =>
              ret[t] = Size(Cardinality(DOMAIN written))

\* C6 witness: a get has just returned the value 2 from the node allocated
\* first, which is at the front of a list of two after some key was touched.
C6_Witness ==
    \E t \in Threads :
        /\ pc[t] = "get_update"
        /\ frame[t].found
        /\ ret[t] = Some(2)
        /\ ~untouched
        /\ Len(lru_list_) = 2
        /\ lru_list_[1] = 1

\* C7: a thread inside get, put, remove or clear holds the mutex as its only
\* holder, no other thread is inside any member function that touches the
\* list or the index, and a thread inside contains, size, empty or
\* get_metrics is among the shared holders.
C7_ExclusiveAndShared ==
    \A t \in Threads :
        /\ InExclusive(t) =>
             /\ cache_mutex_.writer = t
             /\ cache_mutex_.readers = {}
             /\ \A u \in Threads \ {t} : ~InExclusive(u) /\ ~InShared(u)
        /\ InShared(t) =>
             /\ t \in cache_mutex_.readers
             /\ cache_mutex_.writer = NoThread

\* C7 witness: two threads are inside contains, size or empty at once.
C7_Witness ==
    \E t \in Threads, u \in Threads :
        /\ t # u
        /\ pc[t] = "contains_body"
        /\ pc[u] \in {"size_body", "empty_body"}
        /\ cache_mutex_.readers = {t, u}

C3_PutEvictsLeastRecent ==
    /\ [][\A t \in Threads :
            (/\ BodyStep(t, "put_body", "put_update")
             /\ frame[t].key \notin DOMAIN index_
             /\ Len(lru_list_) = capacity_)
            => LET k == frame[t].key
                   victim == KeysBefore[Len(lru_list_)]
               IN  /\ victim = recency[Len(recency)]
                   /\ untouched => victim = inserted[1]
                   /\ DOMAIN index_' = ((DOMAIN index_) \ {victim}) \cup {k}
                   /\ Len(lru_list_') = capacity_
                   /\ KeysAfter = <<k>> \o SubSeq(KeysBefore, 1, Len(lru_list_) - 1)
                   /\ \A j \in (DOMAIN index_) \ {victim} :
                        /\ index_'[j] = index_[j]
                        /\ ValueAfter(j) = ValueBefore(j)
                   /\ ValueAfter(k) = frame[t].value
         ]_vars
    /\ [](script_pos.eviction = Len(LRUEvictionBehavior) =>
            /\ DOMAIN index_ = {2, 3, 4}
            /\ KeysBefore = <<4, 3, 2>>)

\* C3 witness: the fourth put of LRUEvictionBehavior has just evicted.
C3_Witness ==
    \E t \in Threads :
        /\ pc[t] = "put_update"
        /\ script_pos.eviction = Len(LRUEvictionBehavior)
        /\ untouched
        /\ inserted = <<2, 3, 4>>

\* C4: a get of a present key returns the value stored for the key (the
\* value of its latest put), adds 1 to hit_count_ and leaves miss_count_,
\* moves the key to the front and keeps the order of the other keys.  So
\* put(1), put(2), put(3), get(1), put(4) on a cache of capacity 3 evicts
\* key 2 and keeps 1, 3 and 4.
C4_GetHitMovesToFront ==
    /\ [][\A t \in Threads :
            (/\ BodyStep(t, "get_body", "get_update")
             /\ frame[t].key \in DOMAIN index_)
            => LET k == frame[t].key
               IN  /\ ret'[t] = Some(ValueBefore(k))
                   /\ ret'[t] = Some(written[k])
                   /\ hit_count_' = hit_count_ + 1
                   /\ miss_count_' = miss_count_
                   /\ KeysAfter = <<k>> \o Without(KeysBefore, k)
                   /\ UNCHANGED <<entry, index_>>
         ]_vars
    /\ [](script_pos.access = Len(AccessUpdatesOrder) =>
            /\ DOMAIN index_ = {1, 3, 4}
            /\ KeysBefore = <<4, 1, 3>>)

\* C4 witness: the calls of AccessUpdatesOrder have all been made.
C4_Witness ==
    /\ script_pos.access = Len(AccessUpdatesOrder)
    /\ hit_count_ = 1
    /\ 2 \notin DOMAIN index_

\* C5: a put of a present key overwrites its value, moves it to the front,
\* keeps the order and the values of the other keys, evicts nothing and
\* leaves the size, also in a full cache; the stored value of every key is
\* the value of its latest put, and that is what a get that hits returns.
C5_PutOverwritesInPlace ==
    /\ [][\A t \in Threads :
            (/\ BodyStep(t, "put_body", "put_update")
             /\ frame[t].key \in DOMAIN index_)
            => LET k == frame[t].key
               IN  /\ ValueAfter(k) = frame[t].value
                   /\ KeysAfter = <<k>> \o Without(KeysBefore, k)
                   /\ Len(lru_list_') = Len(lru_list_)
                   /\ index_' = index_
                   /\ \A j \in (DOMAIN index_) \ {k} :
                        ValueAfter(j) = ValueBefore(j)
                   /\ ret'[t] = Bool(TRUE)
         ]_vars
    /\ [][\A t \in Threads :
            (/\ BodyStep(t, "get_body", "get_update")
             /\ frame[t].key \in DOMAIN index_)
            => ret'[t] = Some(written[frame[t].key])
         ]_vars
    /\ [](\A k \in DOMAIN index_ :
            k \in DOMAIN written /\ ValueBefore(k) = written[k])

\* C5 witness: a put has just updated the key at the back of a full cache
\* of capacity 2, and the key now holds another value than its neighbour.
C5_Witness ==
    \E t \in Threads :
        /\ pc[t] = "put_update"
        /\ frame[t].found
        /\ capacity_ = 2
        /\ Len(lru_list_) = 2
        /\ lru_list_ = <<1, 2>>
        /\ entry[1].value # entry[2].value

\* C9: a get of an absent key returns nullopt, adds 1 to miss_count_, and
\* leaves hit_count_, the list, the entries and the index as they were.
C9_GetMissChangesNothing ==
    [][\A t \in Threads :
         (/\ BodyStep(t, "get_body", "get_update")
          /\ frame[t].key \notin DOMAIN index_)
         => /\ ret'[t] = Nullopt
            /\ miss_count_' = miss_count_ + 1
            /\ hit_count_' = hit_count_
            /\ UNCHANGED <<lru_list_, entry, index_>>
            /\ Len(lru_list_') = Len(lru_list_)
      ]_vars

\* C9 witness: a get has just missed in a cache that holds another key,
\* after an earlier hit.
C9_Witness ==
    \E t \in Threads :
        /\ pc[t] = "get_update"
        /\ ~frame[t].found
        /\ ret[t] = Nullopt
        /\ Len(lru_list_) = 1
        /\ hit_count_ = 1
        /\ miss_count_ = 1

\* C10: remove returns true exactly when the key was present.  When it was,
\* the key leaves the list and the index, the size drops by 1, and the
\* other keys keep their order, nodes and values; when it was not, the
\* list, the entries and the index are unchanged.  The three counters are
\* unchanged in both cases.
C10_RemoveErasesOnlyItsKey ==
    [][\A t \in Threads :
         BodyStep(t, "remove_body", "remove_unlock")
         => LET k == frame[t].key
            IN  /\ ret'[t] = Bool(k \in DOMAIN index_)
                /\ k \in DOMAIN index_ =>
                     /\ DOMAIN index_' = (DOMAIN index_) \ {k}
                     /\ KeysAfter = Without(KeysBefore, k)
                     /\ Len(lru_list_') = Len(lru_list_) - 1
                     /\ \A j \in DOMAIN index_' :
                          /\ index_'[j] = index_[j]
                          /\ ValueAfter(j) = ValueBefore(j)
                /\ k \notin DOMAIN index_ =>
                     UNCHANGED <<lru_list_, entry, index_>>
                /\ UNCHANGED <<hit_count_, miss_count_, total_access_time_ns_>>
      ]_vars

\* C10 witness: a remove has just erased one of two keys, the one at the
\* front, with all three counters above 0.
C10_Witness ==
    \E t \in Threads :
        /\ pc[t] = "remove_unlock"
        /\ frame[t].found
        /\ ret[t] = Bool(TRUE)
        /\ Len(lru_list_) = 1
        /\ hit_count_ = 1
        /\ miss_count_ = 1
        /\ total_access_time_ns_ = 1

\* C11: contains(k) answers true exactly when k is a live entry (a key of the
\* list, put and not removed, cleared or evicted since), and no step of the
\* call changes the list, the entries, the index, the recency order or the
\* three counters.  So put(1), put(2), put(3), contains(1), put(4) on a
\* cache of capacity 3 still evicts key 1 and leaves the keys 2, 3 and 4.
C11_ContainsChangesNothing ==
    /\ [][\A t \in Threads :
            BodyStep(t, "contains_body", "contains_unlock")
            => LET k == frame[t].key
               IN  /\ ret'[t] = Bool(k \in Range(KeysBefore))
                   /\ ret'[t] = Bool(k \in DOMAIN written)
         ]_vars
    /\ [][\A t \in Threads :
            (frame[t].op = "contains" \/ frame'[t].op = "contains")
            => /\ UNCHANGED <<lru_list_, entry, index_>>
               /\ UNCHANGED <<hit_count_, miss_count_, total_access_time_ns_>>
               /\ UNCHANGED <<recency, written>>
         ]_vars
    /\ [](script_pos.contains = Len(ContainsThenEvict) =>
            /\ DOMAIN index_ = {2, 3, 4}
            /\ KeysBefore = <<4, 3, 2>>)

\* C11 witness: the calls of ContainsThenEvict have all been made: the
\* contains of key 1 answered true and the put of key 4 evicted key 1.
C11_Witness ==
    /\ script_pos.contains = Len(ContainsThenEvict)
    /\ 1 \notin DOMAIN index_
    /\ Len(lru_list_) = TestCapacity

\* C12: from the moment a clear has emptied the cache until the next put,
\* the list, the entries and the index are empty, every size() reports 0,
\* every empty() true and every contains(k) false; no step of a clear call
\* changes hit_count_, miss_count_ or total_access_time_ns_; and a clear
\* that runs after another, the two having been called concurrently, finds
\* the cache empty and leaves it empty.
C12_ClearEmptiesAll ==
    /\ [](cleared >= 0 =>
            /\ lru_list_ = <<>> /\ entry = <<>> /\ index_ = <<>>
            /\ \A t \in Threads :
                 /\ pc[t] = "size_unlock" => ret[t] = Size(0)
                 /\ pc[t] = "empty_unlock" => ret[t] = Bool(TRUE)
                 /\ pc[t] = "contains_unlock" => ret[t] = Bool(FALSE))
    /\ [][\A t \in Threads :
            BodyStep(t, "clear_body", "clear_unlock")
            => /\ lru_list_' = <<>> /\ entry' = <<>> /\ index_' = <<>>
               /\ cleared' = (IF cleared < 0 THEN 0 ELSE cleared) + Len(lru_list_)
               /\ cleared >= 0 => UNCHANGED <<lru_list_, entry, index_>>
         ]_vars
    /\ [][\A t \in Threads :
            (pc'[t] # pc[t] /\ (frame[t].op = "clear" \/ frame'[t].op = "clear"))
            => UNCHANGED <<hit_count_, miss_count_, total_access_time_ns_>>
         ]_vars

\* C12 witness: two clears are running at once: one has erased the entry
\* of the cache and is about to return, the other waits for the mutex, and
\* the counters still hold the hit and the miss counted before.
C12_Witness ==
    \E t \in Threads, u \in Threads :
        /\ t # u
        /\ pc[t] = "clear_unlock"
        /\ pc[u] = "clear_lock"
        /\ cleared = 1
        /\ lru_list_ = <<>>
        /\ hit_count_ = 1
        /\ miss_count_ = 1

\* C13: the constructor called with capacity 0 throws CacheException and
\* leaves no object: no member function can be called afterwards.  Called
\* with a capacity C >= 1 it leaves capacity_ = C and an empty cache, which
\* stays empty until the first put, so that size() reports 0 and empty()
\* true; no later step changes capacity_, and capacity() returns it.
C13_ZeroCapacityRejected ==
    /\ [][\A t \in Threads :
            BodyStep(t, "ctor", pc'[t])
            => IF frame[t].capacity = 0
               THEN /\ ret'[t].kind = "exception"
                    /\ ret'[t].type = "CacheException"
                    /\ \A u \in Threads : pc'[u] = "no_instance"
               ELSE /\ capacity_' = frame[t].capacity
                    /\ lru_list_' = <<>> /\ index_' = <<>>
                    /\ \A u \in Threads : pc'[u] = "idle"
         ]_vars
    /\ [][\A t \in Threads :
            pc[t] = "no_instance" => pc'[t] = "no_instance" /\ frame'[t] = NoFrame
         ]_vars
    /\ [][(\A t \in Threads : pc[t] # "ctor") => capacity_' = capacity_]_vars
    /\ [][(/\ lru_list_ = <<>>
           /\ \A t \in Threads : ~BodyStep(t, "put_body", "put_update"))
          => lru_list_' = <<>>
         ]_vars
    /\ [](\A t \in Threads :
            /\ pc[t] = "idle" => capacity_ >= 1
            /\ pc[t] = "capacity_return" => ret[t] = Size(capacity_)
            /\ (pc[t] = "size_unlock" /\ lru_list_ = <<>>) => ret[t] = Size(0)
            /\ (pc[t] = "empty_unlock" /\ lru_list_ = <<>>) => ret[t] = Bool(TRUE))

\* C13 witness: a cache constructed with capacity 2 has been filled, a get
\* has hit and a get has missed, and capacity() returns 2.
C13_Witness ==
    \E t \in Threads :
        /\ pc[t] = "capacity_return"
        /\ ret[t] = Size(2)
        /\ Len(lru_list_) = 2
        /\ hit_count_ = 1
        /\ miss_count_ = 1

\* C14: a reset_metrics stores 0 to hit_count_, miss_count_ and
\* total_access_time_ns_, so that all three are 0 when it returns, and no
\* step of it changes the list, the entries (keys and values) or the index.
\* A get_metrics with no get counted since the latest reset_metrics reports
\* hits = 0, misses = 0, hit_ratio = 0.0 and average_access_time_ns = 0.0:
\* so does the one of ResetMetrics, which still finds key 1 in the cache.
C14_ResetZeroesOnlyCounters ==
    /\ [][\A t \in Threads :
            /\ BodyStep(t, "reset_hits", "reset_misses") => hit_count_' = 0
            /\ BodyStep(t, "reset_misses", "reset_time") => miss_count_' = 0
            /\ BodyStep(t, "reset_time", "idle")
               => /\ hit_count_' = 0
                  /\ miss_count_' = 0
                  /\ total_access_time_ns_' = 0
            /\ (frame[t].op = "reset_metrics" \/ frame'[t].op = "reset_metrics")
               => UNCHANGED <<lru_list_, entry, index_, capacity_>>
         ]_vars
    /\ [](\A t \in Threads :
            (pc[t] = "metrics_unlock" /\ gets_counted = 0)
            => /\ ret[t].hits = 0
               /\ ret[t].misses = 0
               /\ ret[t].hit_ratio = <<0, 1>>
               /\ ret[t].average_access_time_ns = <<0, 1>>
               /\ ret[t].current_size = Len(lru_list_))
    /\ [](script_pos.reset = Len(ResetMetrics) =>
            /\ hit_count_ = 0 /\ miss_count_ = 0 /\ total_access_time_ns_ = 0
            /\ DOMAIN index_ = {1}
            /\ ValueBefore(1) = 1)

\* C14 witness: the get_metrics of ResetMetrics is about to return, after a
\* hit, a miss and the reset_metrics.
C14_Witness ==
    \E t \in Threads :
        /\ script_pos.reset = Len(ResetMetrics)
        /\ pc[t] = "metrics_unlock"
        /\ ret[t].hits = 0
        /\ ret[t].current_size = 1

\* C15: in every snapshot get_metrics returns, also while other threads run
\* gets and reset_metrics, hit_ratio is hits / (hits + misses) of the hits
\* and misses of that snapshot when hits + misses > 0 and 0.0 otherwise (so
\* too when no get was counted); hence 0.0 <= hit_ratio <= 1.0.
C15_HitRatioOfSnapshot ==
    \A t \in Threads :
        pc[t] = "metrics_unlock" =>
            LET m == ret[t]
                num == m.hit_ratio[1]
                den == m.hit_ratio[2]
            IN  /\ m.hits + m.misses > 0 =>
                     /\ num = m.hits
                     /\ den = m.hits + m.misses
                /\ m.hits + m.misses = 0 => (num = 0 /\ den = 1)
                /\ den > 0
                /\ 0 <= num
                /\ num <= den

\* C15 witness: a snapshot reports one hit and one miss, hit_ratio 1/2,
\* while the other thread is inside a get.
C15_Witness ==
    \E t \in Threads, u \in Threads :
        /\ pc[t] = "metrics_unlock"
        /\ ret[t].hits = 1
        /\ ret[t].misses = 1
        /\ ret[t].hit_ratio = <<1, 2>>
        /\ pc[u] = "get_lock"

\* The snapshot a get_metrics is about to return.
Snapshot(t) == <<ret[t].hits, ret[t].misses, ret[t].current_size>>

\* C16 as stated: for every snapshot taken while other threads run get,
\* put, remove, clear and reset_metrics, there is a point, between the
\* moment get_metrics took the lock and its return, at which hit_count_,
\* miss_count_ and the size of the list were the returned hits, misses and
\* current_size together.
C16_SnapshotHeldTogether ==
    \A t \in Threads :
        (recording /\ pc[t] = "metrics_unlock") => Snapshot(t) \in observed[t]

\* C16 amended: a snapshot is consistent with respect to get, put, remove
\* and clear.  When no reset_metrics stored to hit_count_ or miss_count_
\* while get_metrics held the lock, the returned hits, misses and
\* current_size are hit_count_, miss_count_ and the size of the list at
\* every point between the lock and the return, and the returned capacity
\* is capacity_.
C16_SnapshotConsistentWithoutReset ==
    \A t \in Threads :
        (recording /\ pc[t] = "metrics_unlock" /\ t \notin reset_stored) =>
            /\ observed[t] = {Snapshot(t)}
            /\ Snapshot(t) = <<hit_count_, miss_count_, Len(lru_list_)>>
            /\ ret[t].capacity = capacity_

\* C16 witness: a snapshot with one hit, one miss and one entry is about to
\* be returned while the other thread waits to put.
C16_Witness ==
    \E t \in Threads, u \in Threads :
        /\ recording
        /\ pc[t] = "metrics_unlock"
        /\ t \notin reset_stored
        /\ Snapshot(t) = <<1, 1, 1>>
        /\ pc[u] = "put_lock"

\* Where a thread waits for the mutex.
WaitsExclusive == {"get_lock", "put_lock", "remove_lock", "clear_lock"}
WaitsShared == {"contains_lock", "size_lock", "empty_lock", "metrics_lock"}
Waits(t) == pc[t] \in WaitsExclusive \cup WaitsShared

\* C17: no reachable state is a deadlock.  A thread that requests the mutex
\* does not hold it; a thread that holds it can take the next step of its
\* call without any further lock; and whenever a thread waits for the mutex,
\* some thread can take a step of the call it is in.
C17_NoDeadlock ==
    \A t \in Threads :
        /\ Waits(t) =>
             /\ cache_mutex_.writer # t
             /\ t \notin cache_mutex_.readers
             /\ \E u \in Threads : ENABLED Continue(u)
        /\ (InExclusive(t) \/ InShared(t)) => ENABLED Continue(t)
        /\ pc[t] \in {"capacity_return", "reset_hits", "reset_misses", "reset_time"}
             => ENABLED Continue(t)

\* C17 witness: a clear waits for the mutex while a get_metrics holds it
\* shared and is between its loads.
C17_Witness ==
    \E t \in Threads, u \in Threads :
        /\ pc[t] = "clear_lock"
        /\ pc[u] = "metrics_misses"
        /\ u \in cache_mutex_.readers
        /\ Len(lru_list_) = 1

\* Whether the mutex can be given to a thread that waits for it.
Available(t) ==
    IF pc[t] \in WaitsExclusive
    THEN CanLockUnique(cache_mutex_)
    ELSE CanLockShared(cache_mutex_)

InResetMetrics(t) == pc[t] \in {"reset_hits", "reset_misses", "reset_time"}
HeldExclusivelyBesides(t) == cache_mutex_.writer \notin {NoThread, t}

\* C19 as stated: get_metrics and reset_metrics never contend on the mutex:
\* while another thread holds it exclusively, a get_metrics and a
\* reset_metrics that have been called can take their next step.
C19_MetricsNeverWaitForMutex ==
    \A t \in Threads :
        (HeldExclusivelyBesides(t) /\ (InResetMetrics(t) \/ pc[t] = "metrics_lock"))
        => ENABLED Continue(t)

\* C19 amended: reset_metrics never contends on the mutex: each of its
\* stores can be made while another thread holds the mutex exclusively.
\* get_metrics takes the mutex shared before it loads the counters: it
\* can go on exactly when no thread holds the mutex exclusively, and it
\* loads the counters as one of the shared holders.
C19_OnlyResetBypassesMutex ==
    \A t \in Threads :
        /\ InResetMetrics(t) => ENABLED Continue(t)
        /\ pc[t] = "metrics_lock" =>
             (ENABLED Continue(t) <=> cache_mutex_.writer = NoThread)
        /\ pc[t] \in {"metrics_hits", "metrics_misses", "metrics_time"} =>
             /\ t \in cache_mutex_.readers
             /\ cache_mutex_.writer = NoThread

\* C19 witness: a reset_metrics has stored to hit_count_ and miss_count_
\* while the other thread holds the mutex exclusively inside a get.
C19_Witness ==
    \E t \in Threads, u \in Threads :
        /\ pc[t] = "reset_time"
        /\ pc[u] = "get_update"
        /\ cache_mutex_.writer = u
        /\ hit_count_ = 0
        /\ miss_count_ = 0
        /\ gets_counted = 0
        /\ ~reset_raced

InKeyedBody(t) == pc[t] \in {"get_body", "put_body", "remove_body", "contains_body"}

\* C20: put returns true on each of its three paths (update of a present
\* key, insert below capacity, insert with eviction).  get, put, remove
\* and contains never fail: whatever the key and the state, the body of
\* the call can run (the eviction loop of a put meets capacity_ >= 1, so
\* it never looks for the back of an empty list), no call ends in an
\* exception, and an absent key is reported by the return value: nullopt
\* from get, false from remove and contains.
C20_PutTrueAndAbsenceByValue ==
    /\ [](\A t \in Threads :
            /\ ret[t].kind # "exception"
            /\ InKeyedBody(t) => ENABLED Continue(t)
            /\ pc[t] = "put_body" => capacity_ >= 1)
    /\ [][\A t \in Threads :
            (InKeyedBody(t) /\ pc'[t] # pc[t]) =>
                LET k == frame[t].key
                    present == k \in DOMAIN index_
                IN  /\ pc[t] = "put_body" =>
                         /\ ret'[t] = Bool(TRUE)
                         /\ k \in DOMAIN index_'
                         /\ Len(lru_list_') =
                              IF present \/ Len(lru_list_) >= capacity_
                              THEN Len(lru_list_)
                              ELSE Len(lru_list_) + 1
                    /\ pc[t] = "get_body" =>
                         ret'[t] = IF present
                                   THEN Some(entry[index_[k]].value)
                                   ELSE Nullopt
                    /\ pc[t] = "remove_body" => ret'[t] = Bool(present)
                    /\ pc[t] = "contains_body" => ret'[t] = Bool(present)
         ]_vars

\* C20 witness: the fourth put of LRUEvictionBehavior, an insert with
\* eviction into the full cache, has returned true.
C20_Witness ==
    \E t \in Threads :
        /\ pc[t] = "put_update"
        /\ ret[t] = Bool(TRUE)
        /\ ~frame[t].found
        /\ script_pos.eviction = Len(LRUEvictionBehavior)
        /\ Len(lru_list_) = capacity_
        /\ 1 \notin DOMAIN index_

\* C21: move construction preserves the contents: the initialisation of a
\* new cache from an existing one yields a cache whose size is the size the
\* source had and whose keys are exactly the keys the source held.
C21_MovePreservesContents ==
    [][\A t \in Threads :
          (pc[t] = "idle" /\ pc'[t] \in {"ill_formed", "moved_from"}
                         /\ ret'[t] # ret[t]) =>
              /\ ret'[t].kind = "cache"
              /\ Len(ret'[t].lru_list_) = Len(lru_list_)
              /\ DOMAIN ret'[t].index_ = DOMAIN index_
              /\ ListKeys(ret'[t].lru_list_, ret'[t].entry) = KeysBefore
      ]_vars

\* C21 witness: after put(1) and put(2) the initialisation of moved_cache
\* was attempted on a source of size 2 holding the keys 1 and 2.
C21_Witness ==
    \E t \in Threads :
        /\ ret[t] = IllFormed
        /\ pc[t] = "ill_formed"
        /\ KeysBefore = <<2, 1>>
        /\ DOMAIN index_ = {1, 2}
        /\ hit_count_ + miss_count_ = 0

\* A thread is about to read the list or the index in contains, size,
\* empty, get or get_metrics.
Reading(u) ==
    pc[u] \in {"contains_body", "size_body", "empty_body", "get_body",
               "metrics_misses"}

\* A put of an absent key that found the cache full is between its lookup
\* and its last write.
PutEvicting(t) ==
    /\ pc[t] \in {"put_evict_test", "put_evict_index", "put_evict_list",
                  "put_emplace", "put_index"}
    /\ frame[t].full

\* The intermediate states of such a put: one entry short of the capacity,
\* a victim out of the index but still in the list, or a victim gone and
\* the new key not yet in the index.
HalfEvicted(t) ==
    \/ Len(lru_list_) = capacity_ - 1
    \/ \E v \in frame[t].victims :
          v \notin DOMAIN index_ /\ v \in Range(KeysBefore)
    \/ \E v \in frame[t].victims :
          v \notin DOMAIN index_ /\ frame[t].key \notin DOMAIN index_

\* C22: a put of an absent key into a full cache is atomic to observers:
\* whenever a contains, size, empty, get or get_metrics reads the list or
\* the index, no such put of another thread is in an intermediate state,
\* and the list and the index are as the completed calls left them: the
\* keys of the list are the keys of the index, in the order of their
\* latest completed put or hit.
C22_PutAtomicToObservers ==
    \A u \in Threads :
        Reading(u) =>
            /\ \A t \in Threads \ {u} : PutEvicting(t) => ~HalfEvicted(t)
            /\ KeysBefore = recency
            /\ DOMAIN index_ = Range(KeysBefore)
            /\ \A k \in DOMAIN index_ : entry[index_[k]].key = k

\* C22 witness: a put into the full cache has erased its victim from the
\* index and not yet from the list, while the other thread has called
\* contains for the victim and waits for the mutex.
C22_Witness ==
    \E t \in Threads, u \in Threads :
        /\ pc[t] = "put_evict_list"
        /\ PutEvicting(t)
        /\ HalfEvicted(t)
        /\ pc[u] = "contains_lock"
        /\ frame[u].key \in frame[t].victims
        /\ frame[u].key \in Range(KeysBefore)
        /\ frame[u].key \notin DOMAIN index_

Min(a, b) == IF a <= b THEN a ELSE b
InPut(t) == pc[t] \in {"put_lock", "put_body", "put_update"}

\* C23: on a cache that started empty and on which the threads only put,
\* once all puts have completed the list holds min(N, capacity_) entries,
\* N being the number of distinct keys put, size() returns that number,
\* and every key still contained has the value that was put for it.  A put
\* of an absent key below capacity adds one entry at the head and evicts
\* nothing.
C23_PutsOnlySize ==
    /\ []((\A t \in Threads : ~InPut(t)) =>
            /\ Len(lru_list_) = Min(Cardinality(put_keys), capacity_)
            /\ DOMAIN index_ \subseteq put_keys
            /\ \A k \in DOMAIN index_ : ValueBefore(k) = k * 2)
    /\ [][\A t \in Threads :
            /\ (BodyStep(t, "size_body", "size_unlock")
                    /\ \A u \in Threads : ~InPut(u)) =>
                   ret'[t] = Size(Min(Cardinality(put_keys), capacity_))
            /\ (BodyStep(t, "put_body", "put_update")
                    /\ frame[t].key \notin DOMAIN index_
                    /\ Len(lru_list_) < capacity_) =>
                   /\ KeysAfter = <<frame[t].key>> \o KeysBefore
                   /\ \A k \in DOMAIN index_ : ValueAfter(k) = ValueBefore(k)
         ]_vars

\* C23 witness: three distinct keys have been put into a cache of capacity
\* 2, all puts have completed and size() is about to return 2.
C23_Witness ==
    \E t \in Threads :
        /\ pc[t] = "size_unlock"
        /\ ret[t] = Size(2)
        /\ \A u \in Threads : ~InPut(u)
        /\ capacity_ = 2
        /\ Cardinality(put_keys) = 3
        /\ Len(lru_list_) = 2

\* C24: reset_metrics takes effect at one point of the order in which the
\* gets were counted: once all calls have completed there is a position in
\* that order such that the gets up to it are no longer counted, the gets
\* after it are all still counted, and hit_count_ + miss_count_ is the
\* number of gets after it.
C24_ResetAtSinglePoint ==
    (\A t \in Threads : pc[t] = "idle") =>
        \E p \in 0..Len(get_log) :
            /\ \A i \in 1..Len(get_log) : get_log[i].counted <=> i > p
            /\ hit_count_ + miss_count_ = Len(get_log) - p

\* C24 witness: all calls have completed, a get that hit is still counted
\* in hit_count_ and a get counted after it, a miss, has been dropped by
\* the store to miss_count_.
C24_Witness ==
    /\ \A t \in Threads : pc[t] = "idle"
    /\ Len(get_log) = 2
    /\ get_log[1] = [hit |-> TRUE, counted |-> TRUE]
    /\ get_log[2] = [hit |-> FALSE, counted |-> FALSE]
    /\ hit_count_ = 1
    /\ miss_count_ = 0

\* A thread calls get or put; a get or a put returns.
TimedCallStep(t) == pc[t] = "idle" /\ pc'[t] \in {"get_lock", "put_lock"}
TimedReturnStep(t) == pc[t] \in {"get_update", "put_update"} /\ pc'[t] = "idle"

\* C25: every get (hit or miss) and every put (update, insert, insert with
\* eviction) adds one duration to total_access_time_ns_ exactly once, when
\* it returns: the time from a start point taken when the call is made,
\* before it requests the mutex, and kept until the return.  No other step
\* of these calls and no step of remove, contains, size, empty, clear or
\* get_metrics changes the accumulator.  get_metrics divides the
\* accumulator, put durations included, by hits + misses.
C25_GetAndPutAddTheirDuration ==
    /\ [](\A t \in Threads : InTimedCall(t) => start_time[t] <= now)
    /\ [][/\ \A t \in Threads :
               /\ TimedCallStep(t) => start_time'[t] = now
               /\ ~TimedCallStep(t) => start_time'[t] = start_time[t]
               /\ TimedReturnStep(t) =>
                     total_access_time_ns_' =
                         total_access_time_ns_ + (now - start_time[t])
               /\ (pc[t] = "get_body" /\ pc'[t] # pc[t]) => pc'[t] = "get_update"
               /\ (pc[t] = "put_body" /\ pc'[t] # pc[t]) => pc'[t] = "put_update"
               /\ BodyStep(t, "metrics_time", "metrics_unlock") =>
                     ret'[t].average_access_time_ns =
                         Ratio(total_access_time_ns_, frame[t].hits + frame[t].misses)
          /\ (\A u \in Threads : ~TimedReturnStep(u)) =>
                total_access_time_ns_' = total_access_time_ns_
         ]_vars

\* C25 witness: no get has been counted, a put has added a duration of 1
\* to the accumulator, and get_metrics, dividing by hits + misses = 0,
\* is about to return the average 0.
C25_Witness ==
    \E t \in Threads :
        /\ pc[t] = "metrics_unlock"
        /\ ret[t].hits = 0
        /\ ret[t].misses = 0
        /\ hit_count_ + miss_count_ = 0
        /\ total_access_time_ns_ = 1
        /\ ret[t].average_access_time_ns = Ratio(0, 0)
        /\ lru_list_ # <<>>

=============================================================================
